---- MODULE Spec2Model ----
(***************************************************************************)
(* Verification model of the openclaw secrets subsystem: runtime snapshot  *)
(* preparation and activation (src/secrets/runtime*.ts), and the secrets   *)
(* apply engine (src/secrets/apply.ts, plan.ts).                           *)
(*                                                                         *)
(* Representation.  A JSON value is a tagged record:                       *)
(*   [t |-> "absent"]              undefined / missing key                 *)
(*   [t |-> "str", s |-> "..."]    a string                                *)
(*   [t |-> "bool", b |-> TRUE]    a boolean                               *)
(*   [t |-> "obj"]                 a mapping that is not a secret ref      *)
(*   [t |-> "num"]                 a number                                *)
(*   [t |-> "ref", source, provider, id]   a {source,provider,id} object   *)
(* A configuration tree is a function from the path (sequence of segments) *)
(* of each modelled leaf to its value; a container exists exactly when one *)
(* of its leaves is not absent.  A dot path string is represented by its   *)
(* characters grouped in tokens (see parseDotPath).                        *)
(***************************************************************************)
EXTENDS Integers, Sequences, FiniteSets, TLC

VARIABLES
    prepIn,                    \* arguments of a prepareSecretsRuntimeSnapshot call
    prepOut,                   \* its outcome (returned snapshot or thrown)
    env,                       \* what a load reads: config file, auth stores, providers
    heap,                      \* the objects of the gateway process: address -> content
    activeSnapshot,            \* runtime.ts: let activeSnapshot
    runtimeConfigSnapshot,     \* config module: what setRuntimeConfigSnapshot installed
    runtimeAuthStoreSnapshots, \* auth-profiles module: what replaceRuntime... installed
    held,                      \* the snapshot object a caller holds a reference to
    lastOp,                    \* the operation that led to this state
    disk,                      \* the files: file name -> file
    diskBefore,                \* the files when runSecretsApply was called
    call,                      \* arguments of the runSecretsApply call, and the providers
    run,                       \* where the runSecretsApply call stands
    reloader,                  \* the gateway's secrets state and what it last emitted
    input,                     \* arguments of the call under study
    output                     \* its outcome

prepVars == <<prepIn, prepOut>>
rtVars == <<env, heap, activeSnapshot, runtimeConfigSnapshot,
            runtimeAuthStoreSnapshots, held, lastOp>>
apVars == <<disk, diskBefore, call, run>>
callVars == <<reloader, input, output>>
vars == <<prepVars, rtVars, apVars, callVars>>

Null == [t |-> "null"]

\* The element of a singleton: Only({F(x) : x \in {e}}) is F(e), with e
\* computed once.
Only(S) == CHOOSE x \in S : TRUE

\* The gateway process before any snapshot was prepared.
RtIdle ==
    /\ heap = <<>>
    /\ activeSnapshot = Null
    /\ runtimeConfigSnapshot = Null
    /\ runtimeAuthStoreSnapshots = Null
    /\ held = Null
    /\ lastOp = [op |-> "start"]

\* No call of runSecretsApply under study.
ApIdle ==
    /\ disk = Null
    /\ diskBefore = Null
    /\ call = Null
    /\ run = Null

\* No reloader and no other call under study.
CallIdle ==
    /\ reloader = Null
    /\ input = Null
    /\ output = Null

\* No call of prepareSecretsRuntimeSnapshot under study.
PrepIdle ==
    /\ prepIn = Null
    /\ prepOut = [done |-> FALSE]

-----------------------------------------------------------------------------
(* Values *)

Absent == [t |-> "absent"]
Str(s) == [t |-> "str", s |-> s]
Bool(b) == [t |-> "bool", b |-> b]
Obj == [t |-> "obj"]
Num == [t |-> "num"]
RefV(id) == [t |-> "ref", source |-> "env", provider |-> "default", id |-> id]

\* String.prototype.trim on the strings of the model: " " is the
\* whitespace-only string.
Trim(s) == IF s = " " THEN "" ELSE s

isRecord(value) == value.t \in {"obj", "ref"}

isNonEmptyString(value) == value.t = "str" /\ Trim(value.s) # ""

isExpectedResolvedSecretValue(value, expected) ==
    IF expected = "string"
    THEN isNonEmptyString(value)
    ELSE isNonEmptyString(value) \/ isRecord(value)

\* String(value) as applied to a resolved value.
StringOf(value) ==
    CASE value.t = "str" -> value
      [] value.t = "num" -> Str("0")
      [] OTHER -> Str("[object Object]")

\* coerceSecretRef(value, defaults): the value itself when it has the ref
\* shape, otherwise null (Absent).
coerceSecretRef(value) == IF value.t = "ref" THEN value ELSE Absent

\* resolveSecretInputRef({value, refValue, defaults}) -> {explicitRef, ref}
resolveSecretInputRef(value, refValue) ==
    LET explicitRef == coerceSecretRef(refValue) IN
    IF explicitRef # Absent
    THEN [explicitRef |-> explicitRef, ref |-> explicitRef]
    ELSE [explicitRef |-> Absent, ref |-> coerceSecretRef(value)]

\* secretRefKey(ref) = `${source}:${provider}:${id}`
secretRefKey(ref) == <<ref.source, ref.provider, ref.id>>

-----------------------------------------------------------------------------
(* Resolver context: runtime-shared.ts *)

createResolverContext == [assignments |-> <<>>, warnings |-> <<>>]

pushAssignment(context, assignment) ==
    [context EXCEPT !.assignments = Append(@, assignment)]

\* warningKeys holds `${code}:${path}:${message}` of every warning pushed,
\* i.e. the set of the warnings themselves.
pushWarning(context, warning) ==
    Only({IF \E i \in 1..Len(ctx.warnings) : ctx.warnings[i] = warning
          THEN ctx
          ELSE [ctx EXCEPT !.warnings = Append(@, warning)] : ctx \in {context}})

DefaultInactiveDetails ==
    "secret ref is configured on an inactive surface; skipping resolution until it becomes active."

\* message = `${path}: ${details}`, kept as the pair (path, details).
pushInactiveSurfaceWarning(context, path, details) ==
    pushWarning(context,
        [code |-> "SECRETS_REF_IGNORED_INACTIVE_SURFACE",
         path |-> path,
         message |-> <<path, IF Trim(details) # "" THEN details
                             ELSE DefaultInactiveDetails>>])

collectSecretInputAssignmentSkippingSilently(context, value, path, expected, active, inactiveReason, apply) ==
    LET ref == coerceSecretRef(value) IN
    IF ref = Absent \/ ~active THEN context
    ELSE pushAssignment(context,
            [ref |-> ref, path |-> path, expected |-> expected, apply |-> apply])

collectSecretInputAssignmentIgnoringActive(context, value, path, expected, active, inactiveReason, apply) ==
    LET ref == coerceSecretRef(value) IN
    IF ref = Absent THEN context
    ELSE pushAssignment(context,
            [ref |-> ref, path |-> path, expected |-> expected, apply |-> apply])

\* `active` is TRUE when the caller passed true or left it undefined.
\* `apply` names the place the closure writes to.
collectSecretInputAssignment(context, value, path, expected, active, inactiveReason, apply) ==
    LET ref == coerceSecretRef(value) IN
    IF ref = Absent THEN context
    ELSE IF active = FALSE
    THEN pushInactiveSurfaceWarning(context, path, inactiveReason)
    ELSE pushAssignment(context,
            [ref |-> ref, path |-> path, expected |-> expected, apply |-> apply])

-----------------------------------------------------------------------------
(* Modelled part of the configuration tree and of an auth-profile store *)

ModelProviderIds == {"openai"}
ProfileIds == {"openai:default"}

ProviderApiKeyPath(providerId) == <<"models", "providers", providerId, "apiKey">>
ProviderEnabledPath(providerId) == <<"models", "providers", providerId, "enabled">>
TalkApiKeyPath == <<"talk", "apiKey">>
GatewayAuthModePath == <<"gateway", "auth", "mode">>
GatewayAuthPasswordPath == <<"gateway", "auth", "password">>
GoogleChatPath == <<"channels", "googlechat">>
GoogleChatEnabledPath == <<"channels", "googlechat", "enabled">>
GoogleChatServiceAccountPath == <<"channels", "googlechat", "serviceAccount">>
GoogleChatServiceAccountRefPath == <<"channels", "googlechat", "serviceAccountRef">>
SecretsProvidersPath == <<"secrets", "providers">>

ConfigPaths ==
    {ProviderApiKeyPath(p) : p \in ModelProviderIds}
        \cup {ProviderEnabledPath(p) : p \in ModelProviderIds}
        \cup {TalkApiKeyPath, GatewayAuthModePath, GatewayAuthPasswordPath,
              GoogleChatEnabledPath, GoogleChatServiceAccountPath,
              GoogleChatServiceAccountRefPath, SecretsProvidersPath}

\* Where an assignment's apply closure writes.
ConfigPlace(path) == [target |-> "config", path |-> path]
ProfilePlace(agentDir, profileId, field) ==
    [target |-> "store", agentDir |-> agentDir, profileId |-> profileId, field |-> field]

AuthProfilePath(agentDir, profileId, field) ==
    <<agentDir, "auth-profiles", profileId, field>>

\* A fixed enumeration order of a finite set (Object.entries order).
RECURSIVE SetToSeq(_)
SetToSeq(S) ==
    IF S = {} THEN <<>>
    ELSE LET x == CHOOSE y \in S : TRUE IN <<x>> \o SetToSeq(S \ {x})

-----------------------------------------------------------------------------
(* Collectors: runtime-config-collectors-core.ts, runtime-auth-collectors.ts *)

RECURSIVE collectModelProviderAssignmentsFrom(_, _, _)
collectModelProviderAssignmentsFrom(context, config, ids) ==
    IF ids = <<>> THEN context
    ELSE LET providerId == Head(ids) IN
         collectModelProviderAssignmentsFrom(
            collectSecretInputAssignment(
                context,
                config[ProviderApiKeyPath(providerId)],
                ProviderApiKeyPath(providerId),
                "string",
                config[ProviderEnabledPath(providerId)] # Bool(FALSE),
                "provider is disabled.",
                ConfigPlace(ProviderApiKeyPath(providerId))),
            config, Tail(ids))

collectModelProviderAssignments(context, config) ==
    collectModelProviderAssignmentsFrom(context, config, SetToSeq(ModelProviderIds))

collectTalkAssignments(context, config) ==
    collectSecretInputAssignment(context, config[TalkApiKeyPath], TalkApiKeyPath,
        "string", TRUE, "", ConfigPlace(TalkApiKeyPath))

collectGatewayAssignmentsAnyMode(context, config) ==
    collectSecretInputAssignment(context, config[GatewayAuthPasswordPath],
        GatewayAuthPasswordPath, "string", TRUE, "",
        ConfigPlace(GatewayAuthPasswordPath))

\* A channel or an account is a record value: `enabled` is its flag, `keys`
\* its own properties among the inheritable fields, `accounts` (channel
\* only) the value of its accounts property: Absent, a non-record, or
\* [t |-> "obj", entries |-> the mapping from account id to account value].
ChannelValue(enabled, keys, accounts) ==
    [t |-> "obj", enabled |-> enabled, keys |-> keys, accounts |-> accounts]

ConfigValue(config, path) == IF path \in DOMAIN config THEN config[path] ELSE Absent

\* Object.keys of the record at a path: the next segment of every path below
\* it that holds a value.
OwnKeys(config, prefix) ==
    {p[Len(prefix) + 1] :
        p \in {q \in DOMAIN config : /\ Len(q) > Len(prefix)
                                     /\ \A i \in 1..Len(prefix) : q[i] = prefix[i]
                                     /\ config[q] # Absent}}

\* The record at a path, or what else the path holds: a container that holds
\* nothing but is there has Obj at its own path.
RecordAt(config, prefix) ==
    Only({IF keys # {} \/ ConfigValue(config, prefix) = Obj
          THEN ChannelValue(ConfigValue(config, Append(prefix, "enabled")), keys, Absent)
          ELSE ConfigValue(config, prefix) : keys \in {OwnKeys(config, prefix)}})

\* hasConfiguredSecretInput(value, defaults): a non-empty string or a ref.
hasConfiguredSecretInput(value) ==
    \/ value.t = "str" /\ value.s # ""
    \/ coerceSecretRef(value) # Absent

remoteSecretActiveWhenEnabled(remoteEnabled, remoteMode, remoteUrlConfigured, localConfigured) ==
    remoteEnabled

\* remoteTokenActive and remotePasswordActive of collectGatewayAssignments.
remoteSecretActive(remoteEnabled, remoteMode, remoteUrlConfigured, localConfigured) ==
    remoteEnabled /\ (remoteMode \/ remoteUrlConfigured \/ ~localConfigured)

GatewayPath(rest) == <<"gateway">> \o rest

collectGatewayAssignments(context, config) ==
    IF ~isRecord(RecordAt(config, GatewayPath(<<>>))) THEN context
    ELSE
    LET auth ==
            IF ~isRecord(RecordAt(config, GatewayPath(<<"auth">>))) THEN context
            ELSE collectSecretInputAssignment(context,
                    ConfigValue(config, GatewayAuthPasswordPath),
                    GatewayAuthPasswordPath, "string",
                    ConfigValue(config, GatewayAuthModePath) = Str("password"),
                    "gateway.auth.mode is not password.",
                    ConfigPlace(GatewayAuthPasswordPath))
        localTokenConfigured ==
            hasConfiguredSecretInput(ConfigValue(config, GatewayPath(<<"auth", "token">>)))
        localPasswordConfigured ==
            hasConfiguredSecretInput(ConfigValue(config, GatewayAuthPasswordPath))
        remoteMode == ConfigValue(config, GatewayPath(<<"mode">>)) = Str("remote")
        remoteUrlConfigured ==
            isNonEmptyString(ConfigValue(config, GatewayPath(<<"remote", "url">>)))
        remoteEnabled ==
            ConfigValue(config, GatewayPath(<<"remote", "enabled">>)) # Bool(FALSE)
        remote(ctx, key, localConfigured, suppressedReason) ==
            collectSecretInputAssignment(ctx,
                ConfigValue(config, GatewayPath(<<"remote", key>>)),
                GatewayPath(<<"remote", key>>), "string",
                remoteSecretActive(remoteEnabled, remoteMode, remoteUrlConfigured,
                                   localConfigured),
                IF ~remoteEnabled THEN "gateway.remote is disabled."
                ELSE suppressedReason,
                ConfigPlace(GatewayPath(<<"remote", key>>)))
    IN  IF ~isRecord(RecordAt(config, GatewayPath(<<"remote">>))) THEN auth
        ELSE remote(
                remote(auth, "token", localTokenConfigured,
                       "gateway.remote.token is inactive because local gateway auth token is configured."),
                "password", localPasswordConfigured,
                "gateway.remote.password is inactive because local gateway auth password is configured.")

AgentsPath(rest) == <<"agents">> \o rest

\* The places of agents.list, in order; an array holds its first entries.
AgentIndexes == <<"0", "1">>

AgentPath(index, rest) == AgentsPath(<<"list", index>>) \o rest

\* agents.list when it is an array, otherwise []: the indexes it holds.
AgentList(config) ==
    SelectSeq(AgentIndexes,
        LAMBDA index : RecordAt(config, AgentPath(index, <<>>)) # Absent)

\* The own property `key` of the record at the path.
HasOwn(config, path, key) == key \in OwnKeys(config, path)

hasEnabledAgentWithoutOverrideAmongAll(config, list) == list # <<>>

\* The loop over the list that sets hasEnabledAgentWithoutOverride.
hasEnabledAgentWithoutOverride(config, list) ==
    \E n \in DOMAIN list :
        LET rawAgent == AgentPath(list[n], <<>>)
            memorySearch == Append(rawAgent, "memorySearch")
            remote == Append(memorySearch, "remote")
        IN  /\ isRecord(RecordAt(config, rawAgent))
            /\ ConfigValue(config, Append(rawAgent, "enabled")) # Bool(FALSE)
            /\ ~(/\ isRecord(RecordAt(config, memorySearch))
                  /\ ConfigValue(config, Append(memorySearch, "enabled")) = Bool(FALSE))
            /\ \/ ~isRecord(RecordAt(config, memorySearch))
               \/ ~HasOwn(config, memorySearch, "remote")
               \/ ~isRecord(RecordAt(config, remote))
               \/ ~HasOwn(config, remote, "apiKey")

collectAgentMemorySearchAssignments(context, config) ==
    IF ~isRecord(RecordAt(config, AgentsPath(<<>>))) THEN context
    ELSE
    LET defaultsMemorySearch == AgentsPath(<<"defaults", "memorySearch">>)
        hasDefaultsMemorySearch ==
            /\ isRecord(RecordAt(config, AgentsPath(<<"defaults">>)))
            /\ isRecord(RecordAt(config, defaultsMemorySearch))
        defaultsEnabled ==
            ~(/\ hasDefaultsMemorySearch
              /\ ConfigValue(config, Append(defaultsMemorySearch, "enabled")) = Bool(FALSE))
        list == AgentList(config)
        withoutOverride == hasEnabledAgentWithoutOverride(config, list)
        defaults ==
            IF ~(/\ hasDefaultsMemorySearch
                 /\ isRecord(RecordAt(config, Append(defaultsMemorySearch, "remote"))))
            THEN context
            ELSE collectSecretInputAssignment(context,
                    ConfigValue(config, defaultsMemorySearch \o <<"remote", "apiKey">>),
                    defaultsMemorySearch \o <<"remote", "apiKey">>,
                    "string",
                    defaultsEnabled /\ (withoutOverride \/ Len(list) = 0),
                    IF withoutOverride THEN ""
                    ELSE "all enabled agents override memorySearch.remote.apiKey.",
                    ConfigPlace(defaultsMemorySearch \o <<"remote", "apiKey">>))
        agent(ctx, index) ==
            LET rawAgent == AgentPath(index, <<>>)
                memorySearch == Append(rawAgent, "memorySearch")
                remote == Append(memorySearch, "remote")
            IN  IF ~(/\ isRecord(RecordAt(config, rawAgent))
                     /\ isRecord(RecordAt(config, memorySearch))
                     /\ isRecord(RecordAt(config, remote))
                     /\ HasOwn(config, remote, "apiKey"))
                THEN ctx
                ELSE collectSecretInputAssignment(ctx,
                        ConfigValue(config, Append(remote, "apiKey")),
                        Append(remote, "apiKey"),
                        "string",
                        /\ ConfigValue(config, Append(rawAgent, "enabled")) # Bool(FALSE)
                        /\ ConfigValue(config, Append(memorySearch, "enabled")) # Bool(FALSE),
                        "agent or memorySearch override is disabled.",
                        ConfigPlace(Append(remote, "apiKey")))
        RECURSIVE forEach(_, _)
        forEach(ctx, indexes) ==
            IF indexes = <<>> THEN ctx
            ELSE forEach(agent(ctx, Head(indexes)), Tail(indexes))
    IN  forEach(defaults, list)

\* The config is the one object every collector reads.
collectCoreConfigAssignments(context, config) ==
    Only({collectGatewayAssignments(
              collectTalkAssignments(
                  collectAgentMemorySearchAssignments(
                      collectModelProviderAssignments(context, tree), tree), tree), tree) :
          tree \in {config}})

isEnabledFlagAlways(enabled) == TRUE

\* isEnabledFlag(value) where value is the record holding `enabled`.
isEnabledFlag(enabled) == enabled # Bool(FALSE)

hasOwnProperty(record, key) == key \in record.keys

isChannelAccountEffectivelyEnabled(channel, account) ==
    isEnabledFlag(channel.enabled) /\ isEnabledFlag(account.enabled)

\* Object.keys(accounts) of a record value.
AccountIds(accounts) == DOMAIN accounts.entries

isBaseFieldActiveForChannelSurfaceAnyAccount(surface, rootKey) ==
    IF ~surface.channelEnabled THEN FALSE
    ELSE IF ~surface.hasExplicitAccounts THEN TRUE
    ELSE \E entry \in surface.accounts : entry.enabled

\* The entries of surface.accounts are a set: the code only asks whether
\* some entry passes a test.
resolveChannelAccountSurface(channel) ==
    LET channelEnabled == isEnabledFlag(channel.enabled)
        accounts == channel.accounts
    IN  IF (~isRecord(accounts)) \/ AccountIds(accounts) = {}
        THEN [hasExplicitAccounts |-> FALSE,
              channelEnabled |-> channelEnabled,
              accounts |-> {[accountId |-> "default", account |-> channel,
                             enabled |-> channelEnabled]}]
        ELSE [hasExplicitAccounts |-> TRUE,
              channelEnabled |-> channelEnabled,
              accounts |->
                 {[accountId |-> accountId,
                   account |-> accounts.entries[accountId],
                   enabled |-> isChannelAccountEffectivelyEnabled(
                                  channel, accounts.entries[accountId])] :
                    accountId \in {id \in AccountIds(accounts) :
                                      isRecord(accounts.entries[id])}}]

isBaseFieldActiveForChannelSurface(surface, rootKey) ==
    IF ~surface.channelEnabled THEN FALSE
    ELSE IF ~surface.hasExplicitAccounts THEN TRUE
    ELSE \E entry \in surface.accounts :
            entry.enabled /\ ~hasOwnProperty(entry.account, rootKey)

collectGoogleChatAccountAssignment(context, serviceAccount, serviceAccountRef, path, active, inactiveReason) ==
    LET r == resolveSecretInputRef(serviceAccount, serviceAccountRef)
        warned ==
            IF /\ r.explicitRef # Absent
               /\ serviceAccount # Absent
               /\ coerceSecretRef(serviceAccount) = Absent
            THEN pushWarning(context,
                    [code |-> "SECRETS_REF_OVERRIDES_PLAINTEXT",
                     path |-> path,
                     message |-> <<path, "serviceAccountRef is set; runtime will ignore plaintext serviceAccount.">>])
            ELSE context
    IN  IF r.ref = Absent THEN context
        ELSE IF active = FALSE
        THEN pushInactiveSurfaceWarning(context, Append(path, "serviceAccount"),
                                        inactiveReason)
        ELSE pushAssignment(warned,
                [ref |-> r.ref, path |-> Append(path, "serviceAccount"),
                 expected |-> "string-or-object",
                 apply |-> ConfigPlace(Append(path, "serviceAccount"))])

collectGoogleChatAssignments(context, config) ==
    LET surface == resolveChannelAccountSurface(
                       ChannelValue(config[GoogleChatEnabledPath], {}, Absent))
        topLevelServiceAccountActive ==
            IF ~surface.channelEnabled THEN FALSE ELSE TRUE
    IN  collectGoogleChatAccountAssignment(context,
            config[GoogleChatServiceAccountPath],
            config[GoogleChatServiceAccountRefPath],
            GoogleChatPath, topLevelServiceAccountActive,
            "no enabled account inherits this top-level Google Chat serviceAccount.")

\* The value at a path of the config tree, Absent where the tree has no
\* such path.
ChannelPath(channelKey) == <<"channels", channelKey>>

AccountPath(channelKey, accountId) == <<"channels", channelKey, "accounts", accountId>>

\* channels[channelKey] as a channel value.
ChannelAt(config, channelKey) ==
    LET ids == {id \in OwnKeys(config, Append(ChannelPath(channelKey), "accounts")) :
                   RecordAt(config, AccountPath(channelKey, id)) # Absent}
    IN  [RecordAt(config, ChannelPath(channelKey)) EXCEPT
            !.accounts = IF ids = {} THEN Absent
                         ELSE [t |-> "obj",
                               entries |-> [id \in ids |->
                                   RecordAt(config, AccountPath(channelKey, id))]]]

\* The entries of a surface that stand for explicit accounts, in the order
\* of Object.entries.
ExplicitAccounts(surface) ==
    IF surface.hasExplicitAccounts THEN SetToSeq(surface.accounts) ELSE <<>>

collectSimpleChannelFieldAssignments(context, config, channelKey, field, surface, topInactiveReason, accountInactiveReason) ==
    LET step(ctx, entry) ==
            IF ~hasOwnProperty(entry.account, field) THEN ctx
            ELSE collectSecretInputAssignment(ctx,
                    ConfigValue(config, Append(AccountPath(channelKey, entry.accountId), field)),
                    Append(AccountPath(channelKey, entry.accountId), field),
                    "string", entry.enabled, accountInactiveReason,
                    ConfigPlace(Append(AccountPath(channelKey, entry.accountId), field)))
        RECURSIVE loop(_, _)
        loop(ctx, entries) ==
            IF entries = <<>> THEN ctx
            ELSE loop(step(ctx, Head(entries)), Tail(entries))
    IN  loop(collectSecretInputAssignment(context,
                ConfigValue(config, Append(ChannelPath(channelKey), field)),
                Append(ChannelPath(channelKey), field),
                "string", isBaseFieldActiveForChannelSurface(surface, field),
                topInactiveReason,
                ConfigPlace(Append(ChannelPath(channelKey), field))),
             ExplicitAccounts(surface))

\* The botToken part of collectTelegramAssignments when botToken is one of
\* the fields that only follow the account-inheritance model.
collectTelegramBotTokenAssignmentsWithoutTokenFile(context, config, surface) ==
    collectSimpleChannelFieldAssignments(context, config, "telegram", "botToken", surface,
        "no enabled account inherits this top-level Telegram botToken.",
        "Telegram account is disabled.")

\* The botToken part of collectTelegramAssignments.
collectTelegramBotTokenAssignments(context, config, surface) ==
    LET tokenFileOf(prefix) == ConfigValue(config, Append(prefix, "tokenFile"))
        baseTokenFileIsEmpty == ~isNonEmptyString(tokenFileOf(ChannelPath("telegram")))
        topLevelBotTokenActive ==
            IF ~surface.channelEnabled THEN FALSE
            ELSE IF ~surface.hasExplicitAccounts THEN baseTokenFileIsEmpty
            ELSE \E entry \in surface.accounts :
                    /\ entry.enabled
                    /\ ~hasOwnProperty(entry.account, "botToken")
                    /\ \/ ~hasOwnProperty(entry.account, "tokenFile")
                       \/ ~isNonEmptyString(
                              tokenFileOf(AccountPath("telegram", entry.accountId)))
                    /\ baseTokenFileIsEmpty
        step(ctx, entry) ==
            IF ~hasOwnProperty(entry.account, "botToken") THEN ctx
            ELSE collectSecretInputAssignment(ctx,
                    ConfigValue(config, Append(AccountPath("telegram", entry.accountId), "botToken")),
                    Append(AccountPath("telegram", entry.accountId), "botToken"),
                    "string",
                    /\ entry.enabled
                    /\ ~isNonEmptyString(
                           tokenFileOf(AccountPath("telegram", entry.accountId))),
                    "Telegram account is disabled or tokenFile is configured.",
                    ConfigPlace(Append(AccountPath("telegram", entry.accountId), "botToken")))
        RECURSIVE loop(_, _)
        loop(ctx, entries) ==
            IF entries = <<>> THEN ctx
            ELSE loop(step(ctx, Head(entries)), Tail(entries))
    IN  loop(collectSecretInputAssignment(context,
                ConfigValue(config, Append(ChannelPath("telegram"), "botToken")),
                Append(ChannelPath("telegram"), "botToken"),
                "string", topLevelBotTokenActive,
                "no enabled Telegram surface inherits this top-level botToken (tokenFile is configured).",
                ConfigPlace(Append(ChannelPath("telegram"), "botToken"))),
             ExplicitAccounts(surface))

\* The webhookSecret part of collectTelegramAssignments when webhookSecret
\* is one of the fields that only follow the account-inheritance model.
collectTelegramWebhookSecretAssignmentsWithoutUrl(context, config, surface) ==
    collectSimpleChannelFieldAssignments(context, config, "telegram", "webhookSecret",
        surface,
        "no enabled account inherits this top-level Telegram webhookSecret.",
        "Telegram account is disabled.")

\* The webhookSecret part of collectTelegramAssignments.
collectTelegramWebhookSecretAssignments(context, config, surface) ==
    LET webhookUrlOf(prefix) == ConfigValue(config, Append(prefix, "webhookUrl"))
        baseWebhookUrlIsSet == isNonEmptyString(webhookUrlOf(ChannelPath("telegram")))
        accountWebhookUrlIsSet(entry) ==
            IF hasOwnProperty(entry.account, "webhookUrl")
            THEN isNonEmptyString(webhookUrlOf(AccountPath("telegram", entry.accountId)))
            ELSE baseWebhookUrlIsSet
        topLevelWebhookSecretActive ==
            IF ~surface.channelEnabled THEN FALSE
            ELSE IF ~surface.hasExplicitAccounts THEN baseWebhookUrlIsSet
            ELSE \E entry \in surface.accounts :
                    /\ entry.enabled
                    /\ ~hasOwnProperty(entry.account, "webhookSecret")
                    /\ accountWebhookUrlIsSet(entry)
        step(ctx, entry) ==
            IF ~hasOwnProperty(entry.account, "webhookSecret") THEN ctx
            ELSE collectSecretInputAssignment(ctx,
                    ConfigValue(config, Append(AccountPath("telegram", entry.accountId), "webhookSecret")),
                    Append(AccountPath("telegram", entry.accountId), "webhookSecret"),
                    "string",
                    entry.enabled /\ accountWebhookUrlIsSet(entry),
                    "Telegram account is disabled or webhook mode is not active for this account.",
                    ConfigPlace(Append(AccountPath("telegram", entry.accountId), "webhookSecret")))
        RECURSIVE loop(_, _)
        loop(ctx, entries) ==
            IF entries = <<>> THEN ctx
            ELSE loop(step(ctx, Head(entries)), Tail(entries))
    IN  loop(collectSecretInputAssignment(context,
                ConfigValue(config, Append(ChannelPath("telegram"), "webhookSecret")),
                Append(ChannelPath("telegram"), "webhookSecret"),
                "string", topLevelWebhookSecretActive,
                "no enabled Telegram webhook surface inherits this top-level webhookSecret (webhook mode is not active).",
                ConfigPlace(Append(ChannelPath("telegram"), "webhookSecret"))),
             ExplicitAccounts(surface))

collectTelegramAssignments(context, config) ==
    IF ~isRecord(RecordAt(config, ChannelPath("telegram"))) THEN context
    ELSE \* the surface is resolved once
         LET surface == resolveChannelAccountSurface(ChannelAt(config, "telegram"))
         IN  collectTelegramWebhookSecretAssignments(
                 collectTelegramBotTokenAssignments(context, config, surface),
                 config, surface)

SlackTopInactiveReason(field) ==
    CASE field = "botToken" -> "no enabled account inherits this top-level Slack botToken."
      [] field = "appToken" -> "no enabled account inherits this top-level Slack appToken."
      [] field = "userToken" -> "no enabled account inherits this top-level Slack userToken."
      [] OTHER -> "no enabled account inherits this top-level Slack signingSecret."

\* slack.mode, or an account's mode, when it is "http" or "socket"; the
\* fallback otherwise.
SlackModeOr(value, fallback) ==
    IF value \in {Str("http"), Str("socket")} THEN value ELSE fallback

collectSlackAssignmentsWithoutMode(context, config) ==
    IF ~isRecord(RecordAt(config, ChannelPath("slack"))) THEN context
    ELSE LET surface == resolveChannelAccountSurface(ChannelAt(config, "slack"))
             RECURSIVE fields(_, _)
             fields(ctx, names) ==
                IF names = <<>> THEN ctx
                ELSE fields(collectSimpleChannelFieldAssignments(ctx, config, "slack",
                                Head(names), surface,
                                SlackTopInactiveReason(Head(names)),
                                "Slack account is disabled."),
                            Tail(names))
         IN  fields(context, <<"botToken", "appToken", "userToken", "signingSecret">>)

collectSlackAssignments(context, config) ==
    IF ~isRecord(RecordAt(config, ChannelPath("slack"))) THEN context
    ELSE LET surface == resolveChannelAccountSurface(ChannelAt(config, "slack"))
             RECURSIVE fields(_, _)
             fields(ctx, names) ==
                IF names = <<>> THEN ctx
                ELSE fields(collectSimpleChannelFieldAssignments(ctx, config, "slack",
                                Head(names), surface,
                                SlackTopInactiveReason(Head(names)),
                                "Slack account is disabled."),
                            Tail(names))
             baseMode == SlackModeOr(
                             ConfigValue(config, Append(ChannelPath("slack"), "mode")),
                             Str("socket"))
             accountMode(accountId) ==
                SlackModeOr(ConfigValue(config, Append(AccountPath("slack", accountId), "mode")),
                            baseMode)
             topLevelSigningSecretActive ==
                IF ~surface.channelEnabled THEN FALSE
                ELSE IF ~surface.hasExplicitAccounts THEN baseMode = Str("http")
                ELSE \E entry \in surface.accounts :
                        /\ ~(~entry.enabled \/ hasOwnProperty(entry.account, "signingSecret"))
                        /\ accountMode(entry.accountId) = Str("http")
             step(ctx, entry) ==
                IF ~hasOwnProperty(entry.account, "signingSecret") THEN ctx
                ELSE collectSecretInputAssignment(ctx,
                        ConfigValue(config, Append(AccountPath("slack", entry.accountId), "signingSecret")),
                        Append(AccountPath("slack", entry.accountId), "signingSecret"),
                        "string",
                        entry.enabled /\ accountMode(entry.accountId) = Str("http"),
                        "Slack account is disabled or not running in HTTP mode.",
                        ConfigPlace(Append(AccountPath("slack", entry.accountId), "signingSecret")))
             RECURSIVE loop(_, _)
             loop(ctx, entries) ==
                IF entries = <<>> THEN ctx
                ELSE loop(step(ctx, Head(entries)), Tail(entries))
         IN  loop(collectSecretInputAssignment(
                      fields(context, <<"botToken", "appToken", "userToken">>),
                      ConfigValue(config, Append(ChannelPath("slack"), "signingSecret")),
                      Append(ChannelPath("slack"), "signingSecret"),
                      "string", topLevelSigningSecretActive,
                      "no enabled Slack HTTP-mode surface inherits this top-level signingSecret.",
                      ConfigPlace(Append(ChannelPath("slack"), "signingSecret"))),
                  ExplicitAccounts(surface))

\* collectTtsApiKeyAssignments({tts, pathPrefix, active, inactiveReason}),
\* the tts record being the one at pathPrefix.
collectTtsApiKeyAssignments(context, config, pathPrefix, active, inactiveReason) ==
    LET provider(ctx, name) ==
            IF ~isRecord(RecordAt(config, Append(pathPrefix, name))) THEN ctx
            ELSE collectSecretInputAssignment(ctx,
                    ConfigValue(config, pathPrefix \o <<name, "apiKey">>),
                    pathPrefix \o <<name, "apiKey">>,
                    "string", active, inactiveReason,
                    ConfigPlace(pathPrefix \o <<name, "apiKey">>))
    IN  provider(provider(context, "elevenlabs"), "openai")

collectDiscordAssignments(context, config) ==
    IF ~isRecord(RecordAt(config, ChannelPath("discord"))) THEN context
    ELSE LET discord == ChannelPath("discord")
             surface == resolveChannelAccountSurface(ChannelAt(config, "discord"))
             enabledAt(prefix) == isEnabledFlag(ConfigValue(config, Append(prefix, "enabled")))
             token == collectSimpleChannelFieldAssignments(context, config, "discord",
                          "token", surface,
                          "no enabled account inherits this top-level Discord token.",
                          "Discord account is disabled.")
             pluralkit ==
                IF ~isRecord(RecordAt(config, Append(discord, "pluralkit"))) THEN token
                ELSE collectSecretInputAssignment(token,
                        ConfigValue(config, discord \o <<"pluralkit", "token">>),
                        discord \o <<"pluralkit", "token">>,
                        "string",
                        /\ isBaseFieldActiveForChannelSurface(surface, "pluralkit")
                        /\ enabledAt(Append(discord, "pluralkit")),
                        "no enabled Discord surface inherits this top-level PluralKit config or PluralKit is disabled.",
                        ConfigPlace(discord \o <<"pluralkit", "token">>))
             voice ==
                IF ~(/\ isRecord(RecordAt(config, Append(discord, "voice")))
                     /\ isRecord(RecordAt(config, discord \o <<"voice", "tts">>)))
                THEN pluralkit
                ELSE collectTtsApiKeyAssignments(pluralkit, config,
                        discord \o <<"voice", "tts">>,
                        /\ isBaseFieldActiveForChannelSurface(surface, "voice")
                        /\ enabledAt(Append(discord, "voice")),
                        "no enabled Discord surface inherits this top-level voice config or voice is disabled.")
             accountPluralkit(ctx, entry) ==
                LET account == AccountPath("discord", entry.accountId) IN
                IF ~(/\ hasOwnProperty(entry.account, "pluralkit")
                     /\ isRecord(RecordAt(config, Append(account, "pluralkit"))))
                THEN ctx
                ELSE collectSecretInputAssignment(ctx,
                        ConfigValue(config, account \o <<"pluralkit", "token">>),
                        account \o <<"pluralkit", "token">>,
                        "string",
                        entry.enabled /\ enabledAt(Append(account, "pluralkit")),
                        "Discord account is disabled or PluralKit is disabled for this account.",
                        ConfigPlace(account \o <<"pluralkit", "token">>))
             accountVoice(ctx, entry) ==
                LET account == AccountPath("discord", entry.accountId) IN
                IF ~(/\ hasOwnProperty(entry.account, "voice")
                     /\ isRecord(RecordAt(config, Append(account, "voice")))
                     /\ isRecord(RecordAt(config, account \o <<"voice", "tts">>)))
                THEN ctx
                ELSE collectTtsApiKeyAssignments(ctx, config,
                        account \o <<"voice", "tts">>,
                        entry.enabled /\ enabledAt(Append(account, "voice")),
                        "Discord account is disabled or voice is disabled for this account.")
             RECURSIVE loop(_, _)
             loop(ctx, entries) ==
                IF entries = <<>> THEN ctx
                ELSE loop(accountVoice(accountPluralkit(ctx, Head(entries)), Head(entries)),
                          Tail(entries))
         IN  loop(voice, ExplicitAccounts(surface))

collectChannelConfigAssignments(context, config) ==
    Only({collectDiscordAssignments(
              collectSlackAssignments(
                  collectTelegramAssignments(
                      collectGoogleChatAssignments(ctx, tree), tree), tree), tree) :
          ctx \in {context}, tree \in {config}})

collectConfigAssignments(context, config) ==
    collectChannelConfigAssignments(
        collectCoreConfigAssignments(context, config), config)

collectApiKeyProfileAssignmentSilent(context, profile, profileId, agentDir) ==
    LET r == resolveSecretInputRef(profile.key, profile.keyRef)
        path == AuthProfilePath(agentDir, profileId, "key")
    IN  IF r.ref = Absent THEN context
        ELSE pushAssignment(context,
                [ref |-> r.ref, path |-> path, expected |-> "string",
                 apply |-> ProfilePlace(agentDir, profileId, "key")])

collectApiKeyProfileAssignment(context, profile, profileId, agentDir) ==
    LET r == resolveSecretInputRef(profile.key, profile.keyRef)
        path == AuthProfilePath(agentDir, profileId, "key")
        warned ==
            IF r.explicitRef # Absent /\ isNonEmptyString(profile.key)
            THEN pushWarning(context,
                    [code |-> "SECRETS_REF_OVERRIDES_PLAINTEXT",
                     path |-> path,
                     message |-> <<profileId, "keyRef is set; runtime will ignore plaintext key.">>])
            ELSE context
    IN  IF r.ref = Absent THEN context
        ELSE pushAssignment(warned,
                [ref |-> r.ref, path |-> path, expected |-> "string",
                 apply |-> ProfilePlace(agentDir, profileId, "key")])

RECURSIVE collectAuthStoreAssignmentsFrom(_, _, _, _)
collectAuthStoreAssignmentsFrom(context, store, agentDir, ids) ==
    IF ids = <<>> THEN context
    ELSE LET profileId == Head(ids)
             profile == store.profiles[profileId]
             next == IF profile.type = "api_key"
                     THEN collectApiKeyProfileAssignment(context, profile, profileId, agentDir)
                     ELSE context
         IN  collectAuthStoreAssignmentsFrom(next, store, agentDir, Tail(ids))

collectAuthStoreAssignments(context, store, agentDir) ==
    collectAuthStoreAssignmentsFrom(context, store, agentDir,
        SetToSeq(DOMAIN store.profiles))

-----------------------------------------------------------------------------
(* Resolution and application of the assignments *)

\* A resolution that keeps, for the ref of the talk key, the value the
\* active snapshot holds for it.
resolveSecretRefValuesReusingActive(refs, providerValues, throws) ==
    LET kept == IF activeSnapshot # Null
                THEN heap[activeSnapshot.config][<<"talk", "apiKey">>] ELSE Absent
        values == IF kept.t = "str" THEN [providerValues EXCEPT !["K1"] = kept]
                  ELSE providerValues
        found == {r \in refs : values[r.id] # Absent}
    IN  IF found # refs /\ throws
        THEN [threw |-> TRUE, values |-> <<>>]
        ELSE [threw |-> FALSE,
              values |-> [k \in {secretRefKey(r) : r \in found} |-> values[k[3]]]]

\* resolveSecretRefValues(refs, {config, env, cache}): providerValues gives,
\* for each ref id, the value its provider returns, Absent when the provider
\* has none.  When some ref has no value the call either throws or returns
\* the values it found (throws = TRUE / FALSE).
resolveSecretRefValues(refs, providerValues, throws) ==
    LET found == {r \in refs : providerValues[r.id] # Absent} IN
    IF found # refs /\ throws
    THEN [threw |-> TRUE, values |-> <<>>]
    ELSE [threw |-> FALSE,
          values |-> [k \in {secretRefKey(r) : r \in found} |-> providerValues[k[3]]]]

\* The tree state the apply closures write into.
ApplyAt(state, place, value) ==
    IF place.target = "config"
    THEN [state EXCEPT !.config[place.path] = value]
    ELSE [state EXCEPT !.stores[place.agentDir].profiles[place.profileId][place.field]
                            = StringOf(value)]

RECURSIVE applyResolvedAssignmentsUnchecked(_, _, _)
applyResolvedAssignmentsUnchecked(assignments, resolved, state) ==
    IF assignments = <<>> THEN [threw |-> FALSE, state |-> state]
    ELSE LET assignment == Head(assignments)
             key == secretRefKey(assignment.ref)
         IN  IF key \notin DOMAIN resolved
             THEN applyResolvedAssignmentsUnchecked(Tail(assignments), resolved, state)
             ELSE applyResolvedAssignmentsUnchecked(Tail(assignments), resolved,
                        ApplyAt(state, assignment.apply, resolved[key]))

RECURSIVE applyResolvedAssignments(_, _, _)
applyResolvedAssignments(assignments, resolved, state) ==
    IF assignments = <<>> THEN [threw |-> FALSE, state |-> state]
    ELSE LET assignment == Head(assignments)
             key == secretRefKey(assignment.ref)
         IN  IF key \notin DOMAIN resolved
             THEN [threw |-> TRUE, state |-> state]
             ELSE IF ~isExpectedResolvedSecretValue(resolved[key], assignment.expected)
             THEN [threw |-> TRUE, state |-> state]
             ELSE applyResolvedAssignments(Tail(assignments), resolved,
                        ApplyAt(state, assignment.apply, resolved[key]))

-----------------------------------------------------------------------------
(* prepareSecretsRuntimeSnapshot: runtime.ts *)

AgentDirs == {"main"}

RECURSIVE collectAllAuthStoreAssignments(_, _, _)
collectAllAuthStoreAssignments(context, stores, dirs) ==
    IF dirs = <<>> THEN context
    ELSE collectAllAuthStoreAssignments(
            collectAuthStoreAssignments(context, stores[Head(dirs)], Head(dirs)),
            stores, Tail(dirs))

\* A preparation whose resolution keeps what the active snapshot holds.
prepareSecretsRuntimeSnapshotReusingActive(config, loadAuthStore, providerValues, throws) ==
    LET sourceConfig == config
        resolvedConfig == config
        candidateDirs == SetToSeq(DOMAIN loadAuthStore)
        stores == [d \in DOMAIN loadAuthStore |-> loadAuthStore[d]]
        collected == Only({collectAllAuthStoreAssignments(fromConfig, stores, candidateDirs) :
                        fromConfig \in {collectConfigAssignments(createResolverContext,
                                                                 resolvedConfig)}})
    IN  Only({
        LET refs == {context.assignments[i].ref : i \in 1..Len(context.assignments)}
            resolved == resolveSecretRefValuesReusingActive(refs, providerValues, throws)
            applied == IF context.assignments = <<>>
                       THEN [threw |-> FALSE, state |-> [config |-> resolvedConfig, stores |-> stores]]
                       ELSE IF resolved.threw
                       THEN [threw |-> TRUE, state |-> [config |-> resolvedConfig, stores |-> stores]]
                       ELSE applyResolvedAssignments(context.assignments, resolved.values,
                                [config |-> resolvedConfig, stores |-> stores])
        IN  Only({IF done.threw
                  THEN [threw |-> TRUE]
                  ELSE [threw |-> FALSE,
                        snapshot |-> [sourceConfig |-> sourceConfig,
                                      config |-> done.state.config,
                                      authStores |-> done.state.stores,
                                      warnings |-> context.warnings]] :
                done \in {applied}})
          : context \in {collected}})

\* config: the config passed in; loadAuthStore: agentDir -> store;
\* Result: [threw, snapshot].
prepareSecretsRuntimeSnapshot(config, loadAuthStore, providerValues, throws) ==
    LET sourceConfig == config
        resolvedConfig == config
        candidateDirs == SetToSeq(DOMAIN loadAuthStore)
        stores == [d \in DOMAIN loadAuthStore |-> loadAuthStore[d]]
        collected == Only({collectAllAuthStoreAssignments(fromConfig, stores, candidateDirs) :
                        fromConfig \in {collectConfigAssignments(createResolverContext,
                                                                 resolvedConfig)}})
    IN  Only({
        LET refs == {context.assignments[i].ref : i \in 1..Len(context.assignments)}
            resolved == resolveSecretRefValues(refs, providerValues, throws)
            applied == IF context.assignments = <<>>
                       THEN [threw |-> FALSE, state |-> [config |-> resolvedConfig, stores |-> stores]]
                       ELSE IF resolved.threw
                       THEN [threw |-> TRUE, state |-> [config |-> resolvedConfig, stores |-> stores]]
                       ELSE applyResolvedAssignments(context.assignments, resolved.values,
                                [config |-> resolvedConfig, stores |-> stores])
        IN  Only({IF done.threw
                  THEN [threw |-> TRUE]
                  ELSE [threw |-> FALSE,
                        snapshot |-> [sourceConfig |-> sourceConfig,
                                      config |-> done.state.config,
                                      authStores |-> done.state.stores,
                                      warnings |-> context.warnings]] :
                done \in {applied}})
          : context \in {collected}})

-----------------------------------------------------------------------------
(* A call of prepareSecretsRuntimeSnapshot on arbitrary inputs *)

RefIds == {"K1", "K2"}

\* What a provider can return for a ref id.
ProviderResults == {Absent, Str("sk-live"), Str(" "), Obj}

\* The configuration tree with the given leaves.
ConfigOf(f) ==
    [p \in ConfigPaths |->
        CASE p = ProviderEnabledPath("openai") -> f.providerEnabled
          [] p = ProviderApiKeyPath("openai") -> f.providerApiKey
          [] p = TalkApiKeyPath -> f.talkApiKey
          [] p = GatewayAuthModePath -> f.gatewayAuthMode
          [] p = GatewayAuthPasswordPath -> f.gatewayAuthPassword
          [] p = GoogleChatEnabledPath -> f.googleChatEnabled
          [] p = GoogleChatServiceAccountPath -> f.serviceAccount
          [] p = GoogleChatServiceAccountRefPath -> f.serviceAccountRef
          [] OTHER -> Absent]

PrepConfigs ==
    {ConfigOf(f) : f \in
        [providerEnabled : {Absent, Bool(FALSE)},
         providerApiKey : {Absent, Str("plain"), RefV("K1")},
         talkApiKey : {Absent, RefV("K2")},
         gatewayAuthMode : {Absent, Str("password")},
         gatewayAuthPassword : {Absent, RefV("K2")},
         googleChatEnabled : {Absent, Bool(FALSE)},
         serviceAccount : {Absent, Obj, RefV("K1")},
         serviceAccountRef : {Absent, RefV("K2")}]}

ApiKeyProfile(key, keyRef) ==
    [type |-> "api_key", provider |-> "openai", key |-> key, keyRef |-> keyRef]

EmptyStore == [version |-> 1, profiles |-> <<>>]

StoreWith(profileId, profile) ==
    [version |-> 1, profiles |-> [id \in {profileId} |-> profile]]

PrepStores ==
    {EmptyStore,
     StoreWith("openai:default", ApiKeyProfile(Str("plain"), RefV("K1"))),
     StoreWith("openai:default", ApiKeyProfile(Str(" "), RefV("K1"))),
     StoreWith("openai:default", ApiKeyProfile(Absent, RefV("K1")))}

PrepInit ==
    /\ prepIn \in [config : PrepConfigs,
                   stores : [AgentDirs -> PrepStores],
                   providerValues : [RefIds -> ProviderResults],
                   throws : BOOLEAN]
    /\ prepOut = [done |-> FALSE]
    /\ env = Null
    /\ RtIdle
    /\ ApIdle
    /\ CallIdle

Prepare ==
    /\ ~prepOut.done
    /\ prepOut' = [done |-> TRUE,
                   result |-> prepareSecretsRuntimeSnapshot(
                                 prepIn.config, prepIn.stores,
                                 prepIn.providerValues, prepIn.throws)]
    /\ UNCHANGED <<prepIn, rtVars, apVars, callVars>>

SpecPrepare == PrepInit /\ [][Prepare]_vars

-----------------------------------------------------------------------------
(* prepareSecretsRuntimeSnapshot on configs with channels that have         *)
(* accounts, with a remote gateway, and with agents.  A config is given by  *)
(* the values at some paths; every other path of the tree holds nothing.    *)

\* The values of a record, from the path of the record on.
Leaves(prefix, fields) ==
    [p \in {prefix \o r : r \in DOMAIN fields} |->
        fields[SubSeq(p, Len(prefix) + 1, Len(p))]]

SurfaceAccountIds == {"work", "home"}

\* An account that overrides nothing: not there, there, there and disabled.
PlainAccounts ==
    {(<<>> :> marker) @@ (<<"enabled">> :> enabled) :
        marker \in {Obj}, enabled \in {Absent, Bool(FALSE)}}
    \cup {(<<>> :> Absent) @@ (<<"enabled">> :> Absent),
          (<<>> :> Str("oops")) @@ (<<"enabled">> :> Absent)}

SlackAccounts ==
    {(<<>> :> Obj) @@ (<<"enabled">> :> enabled) @@ (<<"mode">> :> mode)
        @@ (<<"signingSecret">> :> signingSecret) :
        enabled \in {Absent, Bool(FALSE)},
        mode \in {Absent, Str("http"), Str("socket")},
        signingSecret \in {Absent, RefV("K2")}}

SlackConfigs ==
    {Leaves(ChannelPath("slack"), top)
        @@ Leaves(AccountPath("slack", "work"), work)
        @@ Leaves(AccountPath("slack", "home"), home) :
        top \in {(<<"enabled">> :> enabled) @@ (<<"mode">> :> mode)
                    @@ (<<"botToken">> :> botToken)
                    @@ (<<"signingSecret">> :> signingSecret) :
                    enabled \in {Absent, Bool(FALSE)},
                    mode \in {Absent, Str("http"), Str("socket")},
                    botToken \in {Absent, RefV("K1")},
                    signingSecret \in {Absent, RefV("K1")}},
        work \in SlackAccounts \cup PlainAccounts,
        home \in PlainAccounts}

\* Telegram: the bot token and the token file.
TelegramBotTokenConfigs ==
    {Leaves(ChannelPath("telegram"), top)
        @@ Leaves(AccountPath("telegram", "work"), work)
        @@ Leaves(AccountPath("telegram", "home"), home) :
        top \in {(<<"enabled">> :> enabled) @@ (<<"tokenFile">> :> tokenFile)
                    @@ (<<"botToken">> :> botToken) :
                    enabled \in {Absent, Bool(FALSE)},
                    tokenFile \in {Absent, Str("token.txt"), Str(" ")},
                    botToken \in {Absent, RefV("K1")}},
        work \in PlainAccounts \cup
                 {(<<>> :> Obj) @@ (<<"enabled">> :> enabled)
                     @@ (<<"tokenFile">> :> tokenFile) @@ (<<"botToken">> :> botToken) :
                     enabled \in {Absent, Bool(FALSE)},
                     tokenFile \in {Absent, Str("token.txt"), Str(" ")},
                     botToken \in {Absent, RefV("K2")}},
        home \in PlainAccounts}

\* Telegram: the webhook secret and the webhook url.
TelegramWebhookConfigs ==
    {Leaves(ChannelPath("telegram"), top)
        @@ Leaves(AccountPath("telegram", "work"), work)
        @@ Leaves(AccountPath("telegram", "home"), home) :
        top \in {(<<"enabled">> :> enabled) @@ (<<"webhookUrl">> :> webhookUrl)
                    @@ (<<"webhookSecret">> :> webhookSecret) :
                    enabled \in {Absent, Bool(FALSE)},
                    webhookUrl \in {Absent, Str("https://example.com/hook")},
                    webhookSecret \in {Absent, RefV("K1")}},
        work \in PlainAccounts \cup
                 {(<<>> :> Obj) @@ (<<"enabled">> :> enabled)
                     @@ (<<"webhookUrl">> :> webhookUrl)
                     @@ (<<"webhookSecret">> :> webhookSecret) :
                     enabled \in {Absent, Bool(FALSE)},
                     webhookUrl \in {Absent, Str("https://example.com/hook"), Str(" ")},
                     webhookSecret \in {Absent, RefV("K2")}},
        home \in PlainAccounts}

\* Discord: the PluralKit config of the channel and of an account.
DiscordPluralkitConfigs ==
    {Leaves(ChannelPath("discord"), top)
        @@ Leaves(AccountPath("discord", "work"), work)
        @@ Leaves(AccountPath("discord", "home"), home) :
        top \in {(<<"enabled">> :> enabled) @@ (<<"pluralkit", "enabled">> :> subEnabled)
                    @@ (<<"pluralkit", "token">> :> token) :
                    enabled \in {Absent, Bool(FALSE)},
                    subEnabled \in {Absent, Bool(FALSE)},
                    token \in {Absent, RefV("K1")}},
        work \in PlainAccounts \cup
                 {(<<>> :> Obj) @@ (<<"enabled">> :> enabled) @@ (<<"pluralkit">> :> Obj)
                     @@ (<<"pluralkit", "enabled">> :> subEnabled)
                     @@ (<<"pluralkit", "token">> :> token) :
                     enabled \in {Absent, Bool(FALSE)},
                     subEnabled \in {Absent, Bool(FALSE)},
                     token \in {Absent, RefV("K2")}},
        home \in PlainAccounts}

\* Discord: the voice config of the channel and of an account.
DiscordVoiceConfigs ==
    {Leaves(ChannelPath("discord"), top)
        @@ Leaves(AccountPath("discord", "work"), work)
        @@ Leaves(AccountPath("discord", "home"), home) :
        top \in {(<<"enabled">> :> enabled) @@ (<<"voice", "enabled">> :> subEnabled)
                    @@ (<<"voice", "tts", "openai", "apiKey">> :> openai)
                    @@ (<<"voice", "tts", "elevenlabs", "apiKey">> :> elevenlabs) :
                    enabled \in {Absent, Bool(FALSE)},
                    subEnabled \in {Absent, Bool(FALSE)},
                    openai \in {Absent, RefV("K1")},
                    elevenlabs \in {Absent, RefV("K2")}},
        work \in PlainAccounts \cup
                 {(<<>> :> Obj) @@ (<<"enabled">> :> enabled) @@ (<<"voice">> :> Obj)
                     @@ (<<"voice", "enabled">> :> subEnabled)
                     @@ (<<"voice", "tts", "openai", "apiKey">> :> openai) :
                     enabled \in {Absent, Bool(FALSE)},
                     subEnabled \in {Absent, Bool(FALSE)},
                     openai \in {Absent, RefV("K2")}},
        home \in PlainAccounts}

\* The gateway: its mode, the local auth secrets and the remote section.
GatewayRemoteConfigs ==
    {Leaves(GatewayPath(<<>>), gateway) :
        gateway \in {(<<"mode">> :> mode) @@ (<<"auth", "token">> :> localToken)
                       @@ (<<"auth", "password">> :> localPassword)
                       @@ (<<"auth", "mode">> :> Absent)
                       @@ (<<"remote", "enabled">> :> enabled)
                       @@ (<<"remote", "url">> :> url)
                       @@ (<<"remote", "token">> :> token)
                       @@ (<<"remote", "password">> :> password) :
                       mode \in {Absent, Str("local"), Str("remote")},
                       localToken \in {Absent, Str("local-token"), RefV("K2")},
                       localPassword \in {Absent, Str("local-password")},
                       enabled \in {Absent, Bool(FALSE)},
                       url \in {Absent, Str("wss://gateway"), Str(" ")},
                       token \in {Absent, RefV("K1")},
                       password \in {Absent, RefV("K2")}}}

\* An agent of agents.list: it may be disabled, and may override the memory
\* search, its remote object and the apiKey in it.
AgentRecords ==
    {(<<>> :> Obj) @@ (<<"enabled">> :> enabled) @@ memorySearch :
        enabled \in {Absent, Bool(FALSE)},
        memorySearch \in
            {(<<"memorySearch">> :> Absent)}
            \cup {(<<"memorySearch">> :> Obj)
                    @@ (<<"memorySearch", "enabled">> :> searchEnabled)
                    @@ (<<"memorySearch", "remote">> :> remote[1])
                    @@ (<<"memorySearch", "remote", "apiKey">> :> remote[2]) :
                    searchEnabled \in {Absent, Bool(FALSE)},
                    remote \in {<<Absent, Absent>>, <<Obj, Absent>>,
                                <<Obj, RefV("K2")>>, <<Obj, Str("plain")>>}}}

\* agents.list: no entry, one entry (an agent or something else), or two
\* entries the second of which is an agent that overrides the apiKey or
\* nothing.
AgentLists ==
    {<<first, second>> :
        first \in AgentRecords \cup {(<<>> :> Str("oops"))},
        second \in {(<<>> :> Absent)}
                    \cup {a \in AgentRecords :
                            a[<<"memorySearch">>] = Obj =>
                                /\ a[<<"memorySearch", "remote", "apiKey">>] = RefV("K2")
                                /\ a[<<"memorySearch", "enabled">>] = Absent}}
    \cup {<<(<<>> :> Absent), (<<>> :> Absent)>>}

AgentMemorySearchConfigs ==
    {Leaves(AgentsPath(<<"defaults", "memorySearch">>), defaults)
        @@ Leaves(AgentPath("0", <<>>), list[1]) @@ Leaves(AgentPath("1", <<>>), list[2]) :
        defaults \in {(<<"enabled">> :> enabled) @@ (<<"remote", "apiKey">> :> apiKey) :
                        enabled \in {Absent, Bool(FALSE)},
                        apiKey \in {Absent, RefV("K1")}},
        list \in AgentLists}

\* Every other modelled path of the tree holds nothing.
SurfaceConfigs ==
    {leaves @@ [p \in ConfigPaths |-> Absent] :
        leaves \in SlackConfigs \cup TelegramBotTokenConfigs \cup TelegramWebhookConfigs
                    \cup DiscordPluralkitConfigs \cup DiscordVoiceConfigs
                    \cup GatewayRemoteConfigs \cup AgentMemorySearchConfigs}

SurfaceInit ==
    /\ prepIn \in [config : SurfaceConfigs,
                   stores : [AgentDirs -> {EmptyStore}],
                   providerValues : [RefIds -> {Absent, Str("sk-live")}],
                   throws : BOOLEAN]
    /\ prepOut = [done |-> FALSE]
    /\ env = Null
    /\ RtIdle
    /\ ApIdle
    /\ CallIdle

SpecSurfaces == SurfaceInit /\ [][Prepare]_vars

-----------------------------------------------------------------------------
(* The account-inheritance model of a channel, on its own: the surface of a *)
(* channel and the activity of a top-level field.                           *)

MaxAccounts == 2

AccountIdPool == {"work", "home", "ops"}

InheritableFields == {"botToken", "signingSecret"}

EnabledFlags == {Absent, Bool(TRUE), Bool(FALSE)}

\* What an entry of the accounts mapping can be: a non-record, or a record
\* with its flag and its own fields.
AccountValues ==
    {Str("oops")} \cup
    {ChannelValue(enabled, keys, Absent) :
        enabled \in EnabledFlags, keys \in SUBSET InheritableFields}

AccountMappings ==
    UNION {[ids -> AccountValues] :
             ids \in {i \in SUBSET AccountIdPool : Cardinality(i) <= MaxAccounts}}

ChannelInputs ==
    {ChannelValue(enabled, keys, accounts) :
        enabled \in EnabledFlags,
        keys \in {{}, InheritableFields},
        accounts \in {Absent, Str("oops")} \cup
                     {[t |-> "obj", entries |-> m] : m \in AccountMappings}}

ChannelInit ==
    /\ input \in [channel : ChannelInputs, rootKey : InheritableFields]
    /\ output = Null
    /\ reloader = Null
    /\ PrepIdle
    /\ env = Null
    /\ RtIdle
    /\ ApIdle

\* A collector resolves the surface of its channel and asks whether the
\* top-level field is active.
CollectsTopLevelField ==
    /\ input # Null
    /\ output = Null
    /\ \E surface \in {resolveChannelAccountSurface(input.channel)} :
          output' = [surface |-> surface,
                     active |-> isBaseFieldActiveForChannelSurface(
                                   surface, input.rootKey)]
    /\ UNCHANGED <<input, reloader, prepVars, rtVars, apVars>>

SpecChannels == ChannelInit /\ [][CollectsTopLevelField]_vars

-----------------------------------------------------------------------------
(* The active snapshot: runtime.ts.  The objects of a snapshot live in the   *)
(* heap; a snapshot object is the record of the addresses of its components, *)
(* so that two references to one object are told from two equal copies.      *)

SnapshotFields == {"sourceConfig", "config", "authStores", "warnings"}

\* A new snapshot object with the given contents: the heap is the sequence
\* of the objects, an address is an index of it.
NewSnapshot(h, contents) ==
    [heap |-> h \o <<contents.sourceConfig, contents.config,
                      contents.authStores, contents.warnings>>,
     snapshot |-> [t |-> "snapshot", sourceConfig |-> Len(h) + 1, config |-> Len(h) + 2,
                   authStores |-> Len(h) + 3, warnings |-> Len(h) + 4]]

\* The contents a reference to a snapshot object leads to.
Contents(h, snapshot) ==
    IF snapshot = Null THEN Null
    ELSE [f \in SnapshotFields |-> h[snapshot[f]]]

cloneSnapshotShared(h, snapshot) ==
    [heap |-> h, snapshot |-> snapshot]

\* structuredClone of every component: new objects, equal contents.
cloneSnapshot(h, snapshot) ==
    NewSnapshot(h, Contents(h, snapshot))

\* The state of the three modules an activation writes to.
Modules(h, active, config, authStores) ==
    [heap |-> h, activeSnapshot |-> active, runtimeConfigSnapshot |-> config,
     runtimeAuthStoreSnapshots |-> authStores]

\* config module: runtimeConfigSnapshot = config; runtimeConfigSourceSnapshot
\* = sourceConfig.  The module keeps the references it is given.
setRuntimeConfigSnapshot(m, config, sourceConfig) ==
    [m EXCEPT !.runtimeConfigSnapshot =
                    [t |-> "installed", config |-> config, sourceConfig |-> sourceConfig]]

clearRuntimeConfigSnapshot(m) ==
    [m EXCEPT !.runtimeConfigSnapshot = Null]

\* auth-profiles module: the stores ensureAuthProfileStore serves.
replaceRuntimeAuthProfileStoreSnapshots(m, authStores) ==
    [m EXCEPT !.runtimeAuthStoreSnapshots = [t |-> "installed", authStores |-> authStores]]

clearRuntimeAuthProfileStoreSnapshots(m) ==
    [m EXCEPT !.runtimeAuthStoreSnapshots = Null]

\* The installation steps of an activation and of a clear, in program order.
\* throwAt names the callee that throws, "none" when none does; a callee that
\* throws leaves its own module as it was.
ActivateSteps == {"none", "setRuntimeConfigSnapshot", "replaceRuntimeAuthProfileStoreSnapshots"}
ClearSteps == {"none", "clearRuntimeConfigSnapshot", "clearRuntimeAuthProfileStoreSnapshots"}

activateSecretsRuntimeSnapshot(m, snapshot, throwAt) ==
    Only({
        LET next == c.snapshot
            m0 == [m EXCEPT !.heap = c.heap]
            m1 == setRuntimeConfigSnapshot(m0, next.config, next.sourceConfig)
            m2 == replaceRuntimeAuthProfileStoreSnapshots(m1, next.authStores)
            m3 == [m2 EXCEPT !.activeSnapshot = next]
        IN  CASE throwAt = "setRuntimeConfigSnapshot" -> m0
              [] throwAt = "replaceRuntimeAuthProfileStoreSnapshots" -> m1
              [] OTHER -> m3
          : c \in {cloneSnapshot(m.heap, snapshot)}})

\* Result: the modules (a clone allocates) and the returned reference.
getActiveSecretsRuntimeSnapshot(m) ==
    IF m.activeSnapshot # Null
    THEN Only({[modules |-> [m EXCEPT !.heap = c.heap], returned |-> c.snapshot] :
                    c \in {cloneSnapshot(m.heap, m.activeSnapshot)}})
    ELSE [modules |-> m, returned |-> Null]

clearSecretsRuntimeSnapshot(m, throwAt) ==
    LET m1 == [m EXCEPT !.activeSnapshot = Null]
        m2 == clearRuntimeConfigSnapshot(m1)
        m3 == clearRuntimeAuthProfileStoreSnapshots(m2)
    IN  CASE throwAt = "clearRuntimeConfigSnapshot" -> m1
          [] throwAt = "clearRuntimeAuthProfileStoreSnapshots" -> m2
          [] OTHER -> m3

\* reloadSecrets of the gateway: prepare a snapshot from the freshly loaded
\* config, and activate it when the preparation succeeded.
reloadSecrets(m, e, throws, throwAt) ==
    Only({IF prepared.threw
          THEN [threw |-> TRUE, modules |-> m]
          ELSE Only({[threw |-> throwAt # "none",
                      warningCount |-> Len(prepared.snapshot.warnings),
                      modules |-> activateSecretsRuntimeSnapshot(
                                      [m EXCEPT !.heap = n.heap], n.snapshot, throwAt)] :
                    n \in {NewSnapshot(m.heap, prepared.snapshot)}}) :
        prepared \in {prepareSecretsRuntimeSnapshot(e.config, e.stores,
                                                    e.providerValues, throws)}})

\* What a caller does to a component of a snapshot object it holds.
Tamper(field, content) ==
    CASE field \in {"sourceConfig", "config"} ->
            [content EXCEPT ![TalkApiKeyPath] = Str("tampered")]
      [] field = "authStores" ->
            [d \in DOMAIN content |-> [version |-> 1, profiles |-> <<>>]]
      [] OTHER -> <<>>

\* The references of a snapshot object, in a fixed order.
SnapshotRefs(snapshot) ==
    IF snapshot = Null THEN <<>>
    ELSE <<snapshot.sourceConfig, snapshot.config, snapshot.authStores, snapshot.warnings>>

\* The references the process holds, in a fixed order.
References(m, handle) ==
    SnapshotRefs(m.activeSnapshot)
        \o (IF m.runtimeConfigSnapshot = Null THEN <<>>
            ELSE <<m.runtimeConfigSnapshot.config, m.runtimeConfigSnapshot.sourceConfig>>)
        \o (IF m.runtimeAuthStoreSnapshots = Null THEN <<>>
            ELSE <<m.runtimeAuthStoreSnapshots.authStores>>)
        \o (IF handle = Null THEN <<>> ELSE SnapshotRefs(handle.snapshot))

\* The addresses of refs, each once, in the order of their first occurrence.
RECURSIVE Referenced(_, _)
Referenced(refs, seen) ==
    IF refs = <<>> THEN seen
    ELSE IF \E i \in 1..Len(seen) : seen[i] = Head(refs)
    THEN Referenced(Tail(refs), seen)
    ELSE Referenced(Tail(refs), Append(seen, Head(refs)))

\* The address an object has once the objects that are no longer referenced
\* are collected.  Addresses are not observable by the program: only whether
\* two references lead to the same object is.
Moved(live, a) == CHOOSE i \in 1..Len(live) : live[i] = a

MovedSnapshot(live, snapshot) ==
    IF snapshot = Null THEN Null
    ELSE [t |-> "snapshot",
          sourceConfig |-> Moved(live, snapshot.sourceConfig),
          config |-> Moved(live, snapshot.config),
          authStores |-> Moved(live, snapshot.authStores),
          warnings |-> Moved(live, snapshot.warnings)]

CurrentModules ==
    Modules(heap, activeSnapshot, runtimeConfigSnapshot, runtimeAuthStoreSnapshots)

\* The process continues with modules m and the caller holding handle, the
\* objects still referenced being live.
ContinueWith(m, handle, live) ==
    /\ heap' = [i \in 1..Len(live) |-> m.heap[live[i]]]
    /\ activeSnapshot' = MovedSnapshot(live, m.activeSnapshot)
    /\ runtimeConfigSnapshot' =
            IF m.runtimeConfigSnapshot = Null THEN Null
            ELSE [t |-> "installed",
                  config |-> Moved(live, m.runtimeConfigSnapshot.config),
                  sourceConfig |-> Moved(live, m.runtimeConfigSnapshot.sourceConfig)]
    /\ runtimeAuthStoreSnapshots' =
            IF m.runtimeAuthStoreSnapshots = Null THEN Null
            ELSE [t |-> "installed",
                  authStores |-> Moved(live, m.runtimeAuthStoreSnapshots.authStores)]
    /\ held' = IF handle = Null THEN Null
               ELSE [handle EXCEPT !.snapshot = MovedSnapshot(live, @)]

\* The process continues with modules m and the caller holding handle.
Continue(m, handle) ==
    \E modulesNow \in {m}, handleNow \in {handle} :
        \E live \in {Referenced(References(modulesNow, handleNow), <<>>)} :
            ContinueWith(modulesNow, handleNow, live)

Handle(snapshot, origin, passed) ==
    [t |-> "handle", snapshot |-> snapshot, origin |-> origin, passed |-> passed]

\* The environments of the gateway: the config file holds a ref at
\* talk.apiKey (active) and one at gateway.auth.password (inactive, the mode
\* is not password); the auth store holds a keyRef.
RtConfigs ==
    {ConfigOf([providerEnabled |-> Absent, providerApiKey |-> Absent,
               talkApiKey |-> RefV("K1"), gatewayAuthMode |-> Absent,
               gatewayAuthPassword |-> RefV("K2"), googleChatEnabled |-> Absent,
               serviceAccount |-> Absent, serviceAccountRef |-> Absent])}

RtStores == [AgentDirs -> {StoreWith("openai:default", ApiKeyProfile(Absent, RefV("K1")))}]

RtProviderValues ==
    {[k \in RefIds |-> IF k = "K1" THEN v ELSE Absent] :
        v \in {Str("sk-live"), Str("sk-rotated"), Absent, Obj}}

RtEnvs == [config : RtConfigs, stores : RtStores, providerValues : RtProviderValues]

RtInit ==
    /\ PrepIdle
    /\ env \in RtEnvs
    /\ RtIdle
    /\ ApIdle
    /\ CallIdle

\* The operator edits the config file or a provider's secret changes.
EnvChanges ==
    /\ env' \in RtEnvs \ {env}
    /\ Continue(CurrentModules, held)
    /\ lastOp' = [op |-> "env"]
    /\ UNCHANGED <<prepVars, apVars, callVars>>

\* A caller prepares a snapshot and keeps the returned object.
CallerPrepares ==
    \E throws \in BOOLEAN :
        \E prepared \in {prepareSecretsRuntimeSnapshot(env.config, env.stores,
                                                       env.providerValues, throws)} :
            /\ IF prepared.threw
               THEN Continue(CurrentModules, held)
               ELSE \E n \in {NewSnapshot(heap, prepared.snapshot)} :
                    Continue([CurrentModules EXCEPT !.heap = n.heap],
                             Handle(n.snapshot, "prepare", FALSE))
            /\ lastOp' = [op |-> "prepare"]
            /\ UNCHANGED <<env, prepVars, apVars, callVars>>

\* A caller activates the snapshot object it holds.
Activates(throwAt) ==
    /\ held # Null
    /\ Continue(activateSecretsRuntimeSnapshot(CurrentModules, held.snapshot, throwAt),
                [held EXCEPT !.passed = TRUE])
    /\ lastOp' = [op |-> "activate"]
    /\ UNCHANGED <<env, prepVars, apVars, callVars>>

CallerActivates == Activates("none")

\* An activation in which one of the installation steps throws.
ActivationInterrupted == \E throwAt \in ActivateSteps \ {"none"} : Activates(throwAt)

\* A caller asks for the active snapshot and keeps the returned object.
CallerGets ==
    /\ LET r == getActiveSecretsRuntimeSnapshot(CurrentModules) IN
        Continue(r.modules,
                 IF r.returned = Null THEN Null ELSE Handle(r.returned, "get", FALSE))
    /\ lastOp' = [op |-> "get"]
    /\ UNCHANGED <<env, prepVars, apVars, callVars>>

\* A caller mutates a component of the snapshot object it holds.
CallerMutates ==
    /\ held # Null
    /\ \E f \in SnapshotFields :
        Continue([CurrentModules EXCEPT
                      !.heap[held.snapshot[f]] = Tamper(f, @)], held)
    /\ lastOp' = [op |-> "mutate"]
    /\ UNCHANGED <<env, prepVars, apVars, callVars>>

Clears(throwAt) ==
    /\ Continue(clearSecretsRuntimeSnapshot(CurrentModules, throwAt), held)
    /\ lastOp' = [op |-> "clear"]
    /\ UNCHANGED <<env, prepVars, apVars, callVars>>

CallerClears == Clears("none")

\* A clear in which one of the steps throws.
ClearInterrupted == \E throwAt \in ClearSteps \ {"none"} : Clears(throwAt)

\* The "secrets.reload" gateway method: respond(true, {ok, warningCount}),
\* or respond(false, UNAVAILABLE) when reloadSecrets threw.
Reloads(throwAt) ==
    /\ \E throws \in BOOLEAN :
        \E result \in {reloadSecrets(CurrentModules, env, throws, throwAt)} :
        /\ Continue(result.modules, held)
        /\ lastOp' = IF result.threw
                     THEN [op |-> "secrets.reload", ok |-> FALSE, error |-> "UNAVAILABLE"]
                     ELSE [op |-> "secrets.reload", ok |-> TRUE,
                           warningCount |-> result.warningCount]
    /\ UNCHANGED <<env, prepVars, apVars, callVars>>

SecretsReload == Reloads("none")

\* A reload whose activation is interrupted by a step that throws.
ReloadInterrupted == \E throwAt \in ActivateSteps \ {"none"} : Reloads(throwAt)

\* The gateway with callers that prepare, activate, read, mutate what they
\* hold, clear and reload; the installation steps do not throw.
RtNext ==
    \/ EnvChanges
    \/ CallerPrepares
    \/ CallerActivates
    \/ CallerGets
    \/ CallerMutates
    \/ CallerClears
    \/ SecretsReload

SpecRuntime == RtInit /\ [][RtNext]_vars

\* The gateway when an installation step of an activation or of a clear may
\* throw.
InterruptedNext ==
    \/ EnvChanges
    \/ CallerPrepares
    \/ CallerActivates
    \/ CallerGets
    \/ CallerClears
    \/ SecretsReload
    \/ ActivationInterrupted
    \/ ClearInterrupted
    \/ ReloadInterrupted

SpecInterrupted == RtInit /\ [][InterruptedNext]_vars

-----------------------------------------------------------------------------
(* The gateway's secrets state over startup and reload attempts.  The     *)
(* gateway code that keeps it is not part of the sources; the transitions *)
(* are those of the state machine of the design.                          *)

MaxAttempts == 4

activateRuntimeSecretsEveryFailure(machine, reason, ok) ==
    IF ok
    THEN [state |-> "Ready", wasReady |-> TRUE,
          emitted |-> IF machine.state = "Degraded"
                      THEN <<"SECRETS_RELOADER_RECOVERED">> ELSE <<>>]
    ELSE IF reason = "startup"
    THEN [state |-> "FatalStartupFailure", wasReady |-> FALSE, emitted |-> <<>>]
    ELSE IF ~machine.wasReady
    THEN [state |-> "Ready", wasReady |-> FALSE, emitted |-> <<>>]
    ELSE [state |-> "Degraded", wasReady |-> TRUE,
          emitted |-> <<"SECRETS_RELOADER_DEGRADED">>]

activateRuntimeSecretsEverySuccess(machine, reason, ok) ==
    IF ok
    THEN [state |-> "Ready", wasReady |-> TRUE,
          emitted |-> <<"SECRETS_RELOADER_RECOVERED">>]
    ELSE IF reason = "startup"
    THEN [state |-> "FatalStartupFailure", wasReady |-> FALSE, emitted |-> <<>>]
    ELSE IF ~machine.wasReady
    THEN [state |-> "Ready", wasReady |-> FALSE, emitted |-> <<>>]
    ELSE [state |-> "Degraded", wasReady |-> TRUE,
          emitted |-> IF machine.state = "Degraded" THEN <<>>
                      ELSE <<"SECRETS_RELOADER_DEGRADED">>]

activateRuntimeSecretsIgnoringWasReady(machine, reason, ok) ==
    IF ok
    THEN [state |-> "Ready", wasReady |-> TRUE,
          emitted |-> IF machine.state = "Degraded"
                      THEN <<"SECRETS_RELOADER_RECOVERED">> ELSE <<>>]
    ELSE IF reason = "startup"
    THEN [state |-> "FatalStartupFailure", wasReady |-> FALSE, emitted |-> <<>>]
    ELSE [state |-> "Degraded", wasReady |-> TRUE,
          emitted |-> IF machine.state = "Degraded" THEN <<>>
                      ELSE <<"SECRETS_RELOADER_DEGRADED">>]

\* One attempt: the machine after it and the events it emits.
\*   Preparing --ok--> Ready; from Degraded, RECOVERED is emitted
\*   Preparing --err & startup--> FatalStartupFailure
\*   Preparing --err & reload & !wasReady--> Ready (still without snapshot)
\*   Preparing --err & reload & wasReady--> Degraded, DEGRADED is emitted
\*   Degraded --err--> Degraded, no event
activateRuntimeSecrets(machine, reason, ok) ==
    IF ok
    THEN [state |-> "Ready", wasReady |-> TRUE,
          emitted |-> IF machine.state = "Degraded"
                      THEN <<"SECRETS_RELOADER_RECOVERED">> ELSE <<>>]
    ELSE IF reason = "startup"
    THEN [state |-> "FatalStartupFailure", wasReady |-> FALSE, emitted |-> <<>>]
    ELSE IF ~machine.wasReady
    THEN [state |-> "Ready", wasReady |-> FALSE, emitted |-> <<>>]
    ELSE [state |-> "Degraded", wasReady |-> TRUE,
          emitted |-> IF machine.state = "Degraded" THEN <<>>
                      ELSE <<"SECRETS_RELOADER_DEGRADED">>]

ReloaderInit ==
    /\ PrepIdle
    /\ env \in RtEnvs
    /\ RtIdle
    /\ ApIdle
    /\ reloader = [machine |-> [state |-> "Uninitialized", wasReady |-> FALSE,
                                emitted |-> <<>>],
                   reason |-> "none", last |-> "none", attempts |-> 0]
    /\ input = Null
    /\ output = Null

\* An attempt: the snapshot is prepared from the environment and activated
\* when the preparation returned; the machine takes the outcome.
Attempts(reason) ==
    /\ reloader.attempts < MaxAttempts
    /\ \E throws \in BOOLEAN :
        \E result \in {reloadSecrets(CurrentModules, env, throws, "none")} :
            /\ Continue(result.modules, held)
            /\ reloader' = [machine |-> activateRuntimeSecrets(reloader.machine, reason,
                                                               ~result.threw),
                            reason |-> reason,
                            last |-> IF result.threw THEN "err" ELSE "ok",
                            attempts |-> reloader.attempts + 1]
    /\ lastOp' = [op |-> reason]
    /\ UNCHANGED <<env, prepVars, apVars, input, output>>

GatewayStarts ==
    /\ reloader.machine.state = "Uninitialized"
    /\ Attempts("startup")

ReloadAttempt ==
    /\ reloader.machine.state # "FatalStartupFailure"
    /\ Attempts("reload")

ReloaderNext == EnvChanges \/ GatewayStarts \/ ReloadAttempt

SpecReloader == ReloaderInit /\ [][ReloaderNext]_vars

-----------------------------------------------------------------------------
(* Dot paths and plan targets: shared.ts, plan.ts, target-registry-query.ts, *)
(* target-registry-pattern.ts.  A string that is read as a path is the       *)
(* sequence of its pieces: words, "." and " ".                               *)

\* String.prototype.split("."), piece being the piece read so far.
RECURSIVE StringSplit(_, _)
StringSplit(s, piece) ==
    IF s = <<>> THEN <<piece>>
    ELSE IF Head(s) = "." THEN <<piece>> \o StringSplit(Tail(s), <<>>)
    ELSE StringSplit(Tail(s), Append(piece, Head(s)))

\* String.prototype.trim
RECURSIVE StringTrim(_)
StringTrim(s) ==
    IF s = <<>> THEN s
    ELSE IF Head(s) = " " THEN StringTrim(Tail(s))
    ELSE IF s[Len(s)] = " " THEN StringTrim(SubSeq(s, 1, Len(s) - 1))
    ELSE s

parseDotPath(pathname) ==
    LET pieces == StringSplit(pathname, <<>>) IN
    SelectSeq([i \in 1..Len(pieces) |-> StringTrim(pieces[i])],
              LAMBDA segment : Len(segment) > 0)

RECURSIVE toDotPath(_)
toDotPath(segments) ==
    IF segments = <<>> THEN <<>>
    ELSE IF Len(segments) = 1 THEN segments[1]
    ELSE segments[1] \o <<".">> \o toDotPath(Tail(segments))

FORBIDDEN_PATH_SEGMENTS == {<<"__proto__">>, <<"prototype">>, <<"constructor">>}

hasForbiddenPathSegment(segments) ==
    \E i \in 1..Len(segments) : segments[i] \in FORBIDDEN_PATH_SEGMENTS

\* The entries of the target registry the model covers.  An index that an
\* entry does not define is -1, a pattern or a type it does not define is
\* empty.
SECRET_TARGET_REGISTRY ==
    <<[id |-> <<"models", ".", "providers", ".", "*", ".", "apiKey">>,
       targetType |-> "models.providers.apiKey", configFile |-> "openclaw.json",
       pathPattern |-> <<"models", ".", "providers", ".", "*", ".", "apiKey">>,
       refPathPattern |-> <<>>, secretShape |-> "secret_input",
       expectedResolvedValue |-> "string", includeInPlan |-> TRUE,
       providerIdPathSegmentIndex |-> 2, accountIdPathSegmentIndex |-> -1,
       authProfileType |-> "", trackProviderShadowing |-> TRUE],
      [id |-> <<"talk", ".", "apiKey">>,
       targetType |-> "talk.apiKey", configFile |-> "openclaw.json",
       pathPattern |-> <<"talk", ".", "apiKey">>,
       refPathPattern |-> <<>>, secretShape |-> "secret_input",
       expectedResolvedValue |-> "string", includeInPlan |-> TRUE,
       providerIdPathSegmentIndex |-> -1, accountIdPathSegmentIndex |-> -1,
       authProfileType |-> "", trackProviderShadowing |-> FALSE],
      [id |-> <<"auth-profiles", ".", "api_key", ".", "key">>,
       targetType |-> "auth-profiles.api_key.key", configFile |-> "auth-profiles.json",
       pathPattern |-> <<"profiles", ".", "*", ".", "key">>,
       refPathPattern |-> <<"profiles", ".", "*", ".", "keyRef">>,
       secretShape |-> "sibling_ref",
       expectedResolvedValue |-> "string", includeInPlan |-> TRUE,
       providerIdPathSegmentIndex |-> -1, accountIdPathSegmentIndex |-> -1,
       authProfileType |-> "api_key", trackProviderShadowing |-> FALSE]>>

\* The array token kind ("field[]") is used by no entry of the model.
parsePathPattern(pathPattern) ==
    LET segments == parseDotPath(pathPattern) IN
    [i \in 1..Len(segments) |->
        IF segments[i] = <<"*">> THEN [kind |-> "wildcard", value |-> <<>>]
        ELSE [kind |-> "literal", value |-> segments[i]]]

compileTargetRegistryEntry(entry) ==
    entry @@ [pathTokens |-> parsePathPattern(entry.pathPattern),
              refPathTokens |-> parsePathPattern(entry.refPathPattern)]

\* TARGETS_BY_TYPE.get(type): the compiled entries of a target type.
TARGETS_BY_TYPE(type) ==
    LET compiled == [i \in 1..Len(SECRET_TARGET_REGISTRY) |->
                        compileTargetRegistryEntry(SECRET_TARGET_REGISTRY[i])]
    IN  SelectSeq(compiled, LAMBDA entry : entry.targetType = type)

isKnownSecretTargetType(value) == TARGETS_BY_TYPE(value) # <<>>

KNOWN_TARGET_IDS ==
    {compileTargetRegistryEntry(SECRET_TARGET_REGISTRY[i]).id :
        i \in 1..Len(SECRET_TARGET_REGISTRY)}

isKnownSecretTargetIdAny(value) == TRUE

isKnownSecretTargetId(value) == value \in KNOWN_TARGET_IDS

\* /^\d+$/ on a segment whose pieces are characters.
isArrayIndex(segment) ==
    /\ segment # <<>>
    /\ \A i \in 1..Len(segment) :
            segment[i] \in {"0", "1", "2", "3", "4", "5", "6", "7", "8", "9"}

\* index counts from 0 as in the source; Null when the segments do not match.
\* A token is [kind, value] for a literal and a wildcard, [kind, field] for
\* an array.
RECURSIVE matchPathTokensFrom(_, _, _, _)
matchPathTokensFrom(segments, tokens, index, captures) ==
    IF tokens = <<>>
    THEN IF index = Len(segments) THEN [captures |-> captures] ELSE Null
    ELSE LET token == Head(tokens)
             segment == IF index < Len(segments) THEN segments[index + 1] ELSE <<>>
             next == IF index + 1 < Len(segments) THEN segments[index + 2] ELSE <<>>
         IN  IF token.kind = "literal"
             THEN IF index < Len(segments) /\ segment = token.value
                  THEN matchPathTokensFrom(segments, Tail(tokens), index + 1, captures)
                  ELSE Null
             ELSE IF token.kind = "wildcard"
             THEN IF segment = <<>> THEN Null
                  ELSE matchPathTokensFrom(segments, Tail(tokens), index + 1,
                                           Append(captures, segment))
             ELSE IF ~(index < Len(segments) /\ segment = token.field) THEN Null
             ELSE IF ~isArrayIndex(next) THEN Null
             ELSE matchPathTokensFrom(segments, Tail(tokens), index + 2,
                                      Append(captures, next))

matchPathTokens(segments, tokens) == matchPathTokensFrom(segments, tokens, 0, <<>>)

\* Result: [segments], or Null.
RECURSIVE materializePathTokensFrom(_, _, _)
materializePathTokensFrom(tokens, captures, out) ==
    IF tokens = <<>>
    THEN IF captures = <<>> THEN [segments |-> out] ELSE Null
    ELSE IF Head(tokens).kind = "literal"
    THEN materializePathTokensFrom(Tail(tokens), captures, Append(out, Head(tokens).value))
    ELSE IF captures = <<>> \/ Head(captures) = <<>> THEN Null
    ELSE IF Head(tokens).kind = "wildcard"
    THEN materializePathTokensFrom(Tail(tokens), Tail(captures), Append(out, Head(captures)))
    ELSE IF ~isArrayIndex(Head(captures)) THEN Null
    ELSE materializePathTokensFrom(Tail(tokens), Tail(captures),
                                   out \o <<Head(tokens).field, Head(captures)>>)

materializePathTokens(tokens, captures) == materializePathTokensFrom(tokens, captures, <<>>)

\* An id or a ref path that is not defined is the empty sequence.
toResolvedPlanTarget(entry, pathSegments, captures) ==
    LET refPath == IF entry.refPathTokens # <<>>
                   THEN materializePathTokens(entry.refPathTokens, captures)
                   ELSE [segments |-> <<>>]
    IN  IF refPath = Null THEN Null
        ELSE [entry |-> entry, pathSegments |-> pathSegments,
              refPathSegments |-> refPath.segments,
              providerId |-> IF entry.providerIdPathSegmentIndex >= 0
                                /\ entry.providerIdPathSegmentIndex < Len(pathSegments)
                             THEN pathSegments[entry.providerIdPathSegmentIndex + 1]
                             ELSE <<>>,
              accountId |-> IF entry.accountIdPathSegmentIndex >= 0
                               /\ entry.accountIdPathSegmentIndex < Len(pathSegments)
                            THEN pathSegments[entry.accountIdPathSegmentIndex + 1]
                            ELSE <<>>]

RECURSIVE resolvePlanTargetAgainstRegistryIgnoringIds(_, _)
resolvePlanTargetAgainstRegistryIgnoringIds(candidate, entries) ==
    IF entries = <<>> THEN Null
    ELSE LET entry == Head(entries)
             matched == matchPathTokens(candidate.pathSegments, entry.pathTokens)
             resolved == IF matched = Null THEN Null
                         ELSE toResolvedPlanTarget(entry, candidate.pathSegments,
                                                   matched.captures)
         IN  IF ~entry.includeInPlan \/ matched = Null \/ resolved = Null
             THEN resolvePlanTargetAgainstRegistryIgnoringIds(candidate, Tail(entries))
             ELSE resolved

\* entries: TARGETS_BY_TYPE.get(candidate.type), the entries still to try.
RECURSIVE resolvePlanTargetAgainstRegistry(_, _)
resolvePlanTargetAgainstRegistry(candidate, entries) ==
    IF entries = <<>> THEN Null
    ELSE LET entry == Head(entries)
             matched == matchPathTokens(candidate.pathSegments, entry.pathTokens)
             resolved == IF matched = Null THEN Null
                         ELSE toResolvedPlanTarget(entry, candidate.pathSegments,
                                                   matched.captures)
         IN  IF ~entry.includeInPlan \/ matched = Null \/ resolved = Null
             THEN resolvePlanTargetAgainstRegistry(candidate, Tail(entries))
             ELSE IF /\ StringTrim(candidate.providerId) # <<>>
                     /\ resolved.providerId # candidate.providerId
             THEN resolvePlanTargetAgainstRegistry(candidate, Tail(entries))
             ELSE IF /\ StringTrim(candidate.accountId) # <<>>
                     /\ resolved.accountId # candidate.accountId
             THEN resolvePlanTargetAgainstRegistry(candidate, Tail(entries))
             ELSE resolved

\* A field the candidate omits is the empty sequence.
resolveValidatedPlanTarget(candidate) ==
    LET path == StringTrim(candidate.path)
        given == [i \in 1..Len(candidate.pathSegments) |->
                      StringTrim(candidate.pathSegments[i])]
        segments == IF Len(candidate.pathSegments) > 0
                    THEN SelectSeq(given, LAMBDA segment : segment # <<>>)
                    ELSE parseDotPath(path)
    IN  IF ~isKnownSecretTargetType(candidate.type) THEN Null
        ELSE IF path = <<>> THEN Null
        ELSE IF \/ Len(segments) = 0
                \/ hasForbiddenPathSegment(segments)
                \/ path # toDotPath(segments)
        THEN Null
        ELSE resolvePlanTargetAgainstRegistry(
                [type |-> candidate.type, pathSegments |-> segments,
                 providerId |-> candidate.providerId, accountId |-> candidate.accountId],
                TARGETS_BY_TYPE(candidate.type))

-----------------------------------------------------------------------------
(* Plan validation: plan.ts.  In a plan under validation a string is the    *)
(* sequence of its characters (of its pieces, for a path); the ref of a     *)
(* target is [source, provider, id], or Null when the target has none; the  *)
(* providerUpserts and providerDeletes of a plan are Null when it has none. *)

LowerCaseLetters ==
    {"a", "b", "c", "d", "e", "f", "g", "h", "i", "j", "k", "l", "m",
     "n", "o", "p", "q", "r", "s", "t", "u", "v", "w", "x", "y", "z"}

UpperCaseLetters ==
    {"A", "B", "C", "D", "E", "F", "G", "H", "I", "J", "K", "L", "M",
     "N", "O", "P", "Q", "R", "S", "T", "U", "V", "W", "X", "Y", "Z"}

Digits == {"0", "1", "2", "3", "4", "5", "6", "7", "8", "9"}

\* /^[a-z][a-z0-9_-]{0,63}$/
isValidSecretProviderAlias(value) ==
    /\ Len(value) \in 1..64
    /\ value[1] \in LowerCaseLetters
    /\ \A i \in 2..Len(value) :
            value[i] \in LowerCaseLetters \cup Digits \cup {"_", "-"}

\* The provider configs of the model are records with a source; the schema
\* (SecretProviderSchema) accepts those whose source is one of the three.
isSecretsApplyPlan(value) ==
    LET targetAccepted(candidate) ==
            LET ref == candidate.ref
                resolved == resolveValidatedPlanTarget(candidate)
            IN  IF \/ ~isKnownSecretTargetType(candidate.type)
                   \/ StringTrim(candidate.path) = <<>>
                   \/ resolved = Null
                   \/ ref = Null
                THEN FALSE
                ELSE IF \/ ref.source \notin {"env", "file", "exec"}
                        \/ Len(StringTrim(ref.provider)) = 0
                        \/ Len(StringTrim(ref.id)) = 0
                THEN FALSE
                ELSE IF resolved.entry.configFile = "auth-profiles.json"
                THEN Len(StringTrim(candidate.agentId)) # 0
                ELSE TRUE
    IN  /\ value.version = 1
        /\ value.protocolVersion = 1
        /\ \A i \in 1..Len(value.targets) : targetAccepted(value.targets[i])
        /\ value.providerUpserts # Null =>
                \A providerAlias \in DOMAIN value.providerUpserts.entries :
                    /\ isValidSecretProviderAlias(providerAlias)
                    /\ value.providerUpserts.entries[providerAlias].source
                            \in {"env", "file", "exec"}
        /\ value.providerDeletes # Null =>
                \A i \in 1..Len(value.providerDeletes.aliases) :
                    isValidSecretProviderAlias(value.providerDeletes.aliases[i])

-----------------------------------------------------------------------------
(* Files.  A file is its parsed content (doc) and whether its bytes are     *)
(* well-formed UTF-8: "utf8"; "other" when it holds a byte sequence that is *)
(* not; "replaced" when U+FFFD stands where such a sequence stood.  A       *)
(* string read from or written to a file is [doc, chars].                   *)

ConfigFile == "openclaw.json"
AuthStoreFile == "agents/main/agent/auth-profiles.json"
AuthJsonFile == "agents/main/agent/auth.json"
EnvFile == ".env"
FileNames == {ConfigFile, AuthStoreFile, AuthJsonFile, EnvFile}

NoFile == [t |-> "nofile"]
File(doc, bytes) == [t |-> "file", doc |-> doc, bytes |-> bytes]
Text(doc) == [doc |-> doc, chars |-> "plain"]

\* fs.readFileSync(pathname, "utf8"): the decoder puts U+FFFD where the
\* bytes are not well-formed.
readFileSyncUtf8(file) ==
    [doc |-> file.doc, chars |-> IF file.bytes = "utf8" THEN "plain" ELSE "replacement"]

\* fs.writeFileSync(tempPath, value, "utf8"); fs.renameSync(tempPath, pathname)
writeTextFileAtomic(d, pathname, value) ==
    [d EXCEPT ![pathname] =
        File(value.doc, IF value.chars = "plain" THEN "utf8" ELSE "replaced")]

readJsonObjectIfExists(d, filePath) ==
    IF d[filePath] = NoFile THEN Null ELSE [value |-> d[filePath].doc]

EmptyConfig == [p \in ConfigPaths |-> Absent]

\* io.readConfigFileSnapshotForWrite(): the config of the file, the empty
\* config when there is no file.
readConfigFileSnapshotForWrite(d) ==
    IF d[ConfigFile] = NoFile THEN EmptyConfig ELSE d[ConfigFile].doc

loadAuthProfileStoreForSecretsRuntime(d) ==
    IF d[AuthStoreFile] = NoFile THEN EmptyStore ELSE d[AuthStoreFile].doc

-----------------------------------------------------------------------------
(* The projection of a plan on the config and the stores: apply.ts *)

\* The keys of a segment list, a segment being a key of a mapping.
PathKeys(segments) ==
    [i \in 1..Len(segments) |-> IF Len(segments[i]) = 1 THEN segments[i][1] ELSE "?"]

getPath(root, segments) ==
    IF PathKeys(segments) \in DOMAIN root THEN root[PathKeys(segments)] ELSE Absent

setPathCreateStrictUnreported(root, segments, value) ==
    [changed |-> FALSE,
     root |-> IF PathKeys(segments) \in DOMAIN root
              THEN [root EXCEPT ![PathKeys(segments)] = value] ELSE root]

\* Result: [changed, root].
setPathCreateStrict(root, segments, value) ==
    [changed |-> getPath(root, segments) # value,
     root |-> IF PathKeys(segments) \in DOMAIN root
              THEN [root EXCEPT ![PathKeys(segments)] = value] ELSE root]

normalizeSecretsPlanOptions(options) ==
    IF options = Null
    THEN [scrubEnv |-> TRUE, scrubAuthProfilesForProviderTargets |-> TRUE,
          scrubLegacyAuthJson |-> TRUE]
    ELSE options

Threw == [threw |-> TRUE]

ensureMutableAuthStore(loaded) ==
    IF loaded = Null THEN EmptyStore ELSE loaded.value

\* Result: [threw, changed, store].
ensureAuthProfileContainer(target, resolved, store) ==
    LET profileId == PathKeys(resolved.pathSegments)[2]
        expectedType == resolved.entry.authProfileType
        provider == StringTrim(target.authProfileProvider)
    IN  IF profileId \in DOMAIN store.profiles
        THEN IF expectedType # "" /\ store.profiles[profileId].type # expectedType
             THEN Threw
             ELSE [threw |-> FALSE, changed |-> FALSE, store |-> store]
        ELSE IF expectedType = "" \/ provider = <<>> THEN Threw
        ELSE [threw |-> FALSE, changed |-> TRUE,
              store |-> [store EXCEPT !.profiles =
                            [id \in DOMAIN store.profiles \cup {profileId} |->
                                IF id = profileId
                                THEN [type |-> expectedType, provider |-> PathKeys(<<provider>>)[1],
                                      key |-> Absent, keyRef |-> Absent]
                                ELSE store.profiles[id]]]]

\* p: the projection so far.  Result: [threw, p].  Every auth-profiles entry
\* of the registry has the sibling_ref shape.
applyAuthProfileTargetMutation(target, resolved, p, d) ==
    LET loaded == IF AuthStoreFile \in DOMAIN p.authStoreByPath
                  THEN [value |-> p.authStoreByPath[AuthStoreFile]]
                  ELSE readJsonObjectIfExists(d, AuthStoreFile)
        c == ensureAuthProfileContainer(target, resolved, ensureMutableAuthStore(loaded))
        keys == PathKeys(resolved.pathSegments)
        refKeys == PathKeys(resolved.refPathSegments)
    IN  IF StringTrim(target.agentId) = <<>> THEN Threw
        ELSE IF c.threw THEN Threw
        ELSE LET profile == c.store.profiles[keys[2]]
                 previous == profile[keys[3]]
                 wroteRef == profile[refKeys[3]] # target.ref
                 deletedPlaintext == previous # Absent
                 changed == c.changed \/ wroteRef \/ deletedPlaintext
                 store == [c.store EXCEPT !.profiles[keys[2]] =
                              [@ EXCEPT ![refKeys[3]] = target.ref, ![keys[3]] = Absent]]
             IN  [threw |-> FALSE,
                  p |-> [p EXCEPT
                         !.authStoreByPath = [f \in {AuthStoreFile} |-> store],
                         !.scrubbedValues = IF isNonEmptyString(previous)
                                            THEN @ \cup {Trim(previous.s)} ELSE @,
                         !.changedFiles = IF changed THEN @ \cup {AuthStoreFile} ELSE @]]

\* One turn of the loop over the resolved targets, for an openclaw.json
\* target.  Every openclaw.json entry of the model has the secret_input shape.
applyConfigTargetMutation(target, resolved, p) ==
    LET previous == getPath(p.nextConfig, resolved.pathSegments)
        wrote == setPathCreateStrict(p.nextConfig, resolved.pathSegments, target.ref)
    IN  [threw |-> FALSE,
         p |-> [p EXCEPT
                !.nextConfig = wrote.root,
                !.scrubbedValues = IF isNonEmptyString(previous)
                                   THEN @ \cup {Trim(previous.s)} ELSE @,
                !.configChanged = @ \/ wrote.changed,
                !.providerTargets =
                    IF resolved.entry.trackProviderShadowing /\ resolved.providerId # <<>>
                    THEN @ \cup {PathKeys(<<resolved.providerId>>)[1]} ELSE @]]

RECURSIVE applyConfigTargetMutationsFrom(_, _, _, _)
applyConfigTargetMutationsFrom(planTargets, resolvedTargets, p, d) ==
    IF planTargets = <<>> THEN [threw |-> FALSE, p |-> p]
    ELSE Only({IF one.threw THEN Threw
               ELSE applyConfigTargetMutationsFrom(Tail(planTargets),
                                                   Tail(resolvedTargets), one.p, d) :
            one \in {IF Head(resolvedTargets).entry.configFile = "auth-profiles.json"
                     THEN applyAuthProfileTargetMutation(Head(planTargets),
                                                         Head(resolvedTargets), p, d)
                     ELSE applyConfigTargetMutation(Head(planTargets),
                                                    Head(resolvedTargets), p)}})

\* resolveTarget throws for a target that resolveValidatedPlanTarget refuses;
\* every target is resolved before the first mutation.
applyConfigTargetMutations(planTargets, p, d) ==
    Only({IF \E i \in 1..Len(planTargets) : resolvedTargets[i] = Null THEN Threw
          ELSE applyConfigTargetMutationsFrom(planTargets, resolvedTargets, p, d) :
        resolvedTargets \in {[i \in 1..Len(planTargets) |->
                                resolveValidatedPlanTarget(planTargets[i])]}})

scrubAuthStoresForProviderTargets(p, d, enabled) ==
    LET parsed == IF AuthStoreFile \in DOMAIN p.authStoreByPath
                  THEN [value |-> p.authStoreByPath[AuthStoreFile]]
                  ELSE readJsonObjectIfExists(d, AuthStoreFile)
        hit(profile) == profile.provider \in p.providerTargets /\ profile.type = "api_key"
        hits == IF parsed = Null THEN {}
                ELSE {id \in DOMAIN parsed.value.profiles : hit(parsed.value.profiles[id])}
        \* an oauth profile of the model holds an access token
        oauth == IF parsed = Null THEN {}
                 ELSE {id \in DOMAIN parsed.value.profiles :
                        /\ parsed.value.profiles[id].provider \in p.providerTargets
                        /\ parsed.value.profiles[id].type = "oauth"}
        mutated == \E id \in hits : \/ parsed.value.profiles[id].key # Absent
                                    \/ parsed.value.profiles[id].keyRef # Absent
        nextStore == [parsed.value EXCEPT !.profiles =
                        [id \in DOMAIN parsed.value.profiles |->
                            IF id \in hits
                            THEN [parsed.value.profiles[id] EXCEPT
                                    !.key = Absent, !.keyRef = Absent]
                            ELSE parsed.value.profiles[id]]]
    IN  IF ~enabled \/ p.providerTargets = {} \/ parsed = Null THEN p
        ELSE [p EXCEPT
              !.scrubbedValues =
                    @ \cup {Trim(parsed.value.profiles[id].key.s) :
                                id \in {h \in hits :
                                    isNonEmptyString(parsed.value.profiles[h].key)}},
              !.warnings = @ \o [i \in 1..Cardinality(oauth) |->
                                    [oauthCredentialsIn |-> AuthStoreFile,
                                     profileId |-> SetToSeq(oauth)[i]]],
              !.authStoreByPath = IF mutated THEN [f \in {AuthStoreFile} |-> nextStore] ELSE @,
              !.changedFiles = IF mutated THEN @ \cup {AuthStoreFile} ELSE @]

\* auth.json: provider id -> entry; the api_key entries with a key go.
scrubLegacyAuthJsonStores(p, d, enabled) ==
    LET parsed == readJsonObjectIfExists(d, AuthJsonFile)
        gone == IF parsed = Null THEN {}
                ELSE {id \in DOMAIN parsed.value :
                        /\ parsed.value[id].type = "api_key"
                        /\ isNonEmptyString(parsed.value[id].key)}
    IN  IF ~enabled \/ gone = {} THEN p
        ELSE [p EXCEPT
              !.authJsonByPath = [f \in {AuthJsonFile} |->
                                    [id \in DOMAIN parsed.value \ gone |-> parsed.value[id]]],
              !.changedFiles = @ \cup {AuthJsonFile}]

\* A line of a .env file is [key, value]; key is "" on a line that is not an
\* assignment.
listKnownSecretEnvVarNames == {"OPENAI_API_KEY"}

scrubEnvRaw(raw, migratedValues, allowedEnvKeys) ==
    [raw EXCEPT !.doc = SelectSeq(@, LAMBDA line :
        ~(line.key \in allowedEnvKeys /\ line.value \in migratedValues))]

scrubEnvFiles(p, d, enabled) ==
    LET current == readFileSyncUtf8(d[EnvFile])
        nextRaw == scrubEnvRaw(current, p.scrubbedValues, listKnownSecretEnvVarNames)
    IN  IF ~enabled \/ p.scrubbedValues = {} \/ d[EnvFile] = NoFile THEN p
        ELSE IF nextRaw = current THEN p
        ELSE [p EXCEPT !.envRawByPath = [f \in {EnvFile} |-> nextRaw],
                       !.changedFiles = @ \cup {EnvFile}]

validateProjectedSecretsStateSkipped(planTargets, p, d, providerValues, throws) ==
    FALSE

\* Result: TRUE when it throws.
validateProjectedSecretsState(planTargets, p, d, providerValues, throws) ==
    \/ \E i \in 1..Len(planTargets) :
        \/ providerValues[planTargets[i].ref.id] = Absent
        \/ ~isExpectedResolvedSecretValue(
                providerValues[planTargets[i].ref.id],
                resolveValidatedPlanTarget(planTargets[i]).entry.expectedResolvedValue)
    \/ prepareSecretsRuntimeSnapshot(
            p.nextConfig,
            [dir \in AgentDirs |->
                IF AuthStoreFile \in DOMAIN p.authStoreByPath
                THEN p.authStoreByPath[AuthStoreFile]
                ELSE loadAuthProfileStoreForSecretsRuntime(d)],
            providerValues, throws).threw

\* The value of secrets.providers: the mapping from provider alias to
\* provider config.
ProvidersValue(entries) == [t |-> "obj", entries |-> entries]

\* upserts: alias -> provider config (<<>> when the plan has none); deletes:
\* the aliases to delete.  Result: [changed, config].
applyProviderPlanMutations(config, upserts, deletes) ==
    LET currentProviders ==
            IF isRecord(config[SecretsProvidersPath])
            THEN config[SecretsProvidersPath].entries ELSE <<>>
        deleted == {deletes[i] : i \in 1..Len(deletes)} \cap DOMAIN currentProviders
        afterDeletes == [a \in DOMAIN currentProviders \ deleted |-> currentProviders[a]]
        upserted == {a \in DOMAIN upserts :
                        \/ a \notin DOMAIN afterDeletes
                        \/ afterDeletes[a] # upserts[a]}
        afterUpserts == [a \in DOMAIN afterDeletes \cup upserted |->
                            IF a \in upserted THEN upserts[a] ELSE afterDeletes[a]]
        changed == deleted # {} \/ upserted # {}
    IN  [changed |-> changed,
         config |-> IF ~changed THEN config
                    ELSE IF DOMAIN afterUpserts = {}
                    THEN [config EXCEPT ![SecretsProvidersPath] = Absent]
                    ELSE [config EXCEPT ![SecretsProvidersPath] =
                                            ProvidersValue(afterUpserts)]]

\* Result: [threw], and when it returns the projected state.
projectPlanState(plan, d, providerValues, throws) ==
    LET options == normalizeSecretsPlanOptions(plan.options)
        providerChange == Only({applyProviderPlanMutations(config,
                                    plan.providerUpserts, plan.providerDeletes) :
                                  config \in {readConfigFileSnapshotForWrite(d)}})
        p0 == [nextConfig |-> providerChange.config,
               authStoreByPath |-> <<>>, authJsonByPath |-> <<>>, envRawByPath |-> <<>>,
               changedFiles |-> IF providerChange.changed THEN {ConfigFile} ELSE {},
               warnings |-> <<>>, scrubbedValues |-> {},
               providerTargets |-> {}, configChanged |-> FALSE]
        \* the stages after the target mutations, each on the result of the last
        scrubbed(m) ==
            {scrubEnvFiles(p3, d, options.scrubEnv) :
                p3 \in {scrubLegacyAuthJsonStores(p2, d, options.scrubLegacyAuthJson) :
                    p2 \in {scrubAuthStoresForProviderTargets(p1, d,
                                    options.scrubAuthProfilesForProviderTargets) :
                        p1 \in {[m.p EXCEPT !.changedFiles =
                                    IF m.p.configChanged THEN @ \cup {ConfigFile}
                                    ELSE @]}}}}
    IN  Only({IF m.threw THEN Threw
              ELSE Only({IF validateProjectedSecretsState(plan.targets, p4, d,
                                                          providerValues, throws)
                         THEN Threw
                         ELSE [threw |-> FALSE, projected |-> p4] :
                        p4 \in scrubbed(m)}) :
            m \in {applyConfigTargetMutations(plan.targets, q, d) : q \in {p0}}})

-----------------------------------------------------------------------------
(* runSecretsApply: apply.ts *)

captureFileSnapshot(d, pathname) ==
    IF d[pathname] = NoFile
    THEN [existed |-> FALSE, content |-> Text(<<>>)]
    ELSE [existed |-> TRUE, content |-> readFileSyncUtf8(d[pathname])]

restoreFileSnapshot(d, pathname, snapshot) ==
    IF ~snapshot.existed
    THEN [d EXCEPT ![pathname] = NoFile]
    ELSE writeTextFileAtomic(d, pathname, snapshot.content)

\* The catch block when nothing guards a restore: the first restore that
\* throws ends the loop.
RECURSIVE restoreSnapshotsUnguarded(_, _, _, _)
restoreSnapshotsUnguarded(state, pathnames, snapshots, failing) ==
    IF pathnames = <<>> THEN state
    ELSE IF Head(pathnames) \in failing
    THEN [state EXCEPT !.attempted = @ \cup {Head(pathnames)}, !.threw = TRUE]
    ELSE restoreSnapshotsUnguarded(
            [disk |-> restoreFileSnapshot(state.disk, Head(pathnames),
                                          snapshots[Head(pathnames)]),
             attempted |-> state.attempted \cup {Head(pathnames)},
             threw |-> FALSE],
            Tail(pathnames), snapshots, failing)

\* The loop of the catch block over the snapshots in their order: each
\* restore runs in its own try, and one that throws (pathname \in failing)
\* leaves its file as it is and is passed over.  state = [disk, attempted,
\* threw]: threw tells whether the loop itself threw.
RECURSIVE restoreSnapshots(_, _, _, _)
restoreSnapshots(state, pathnames, snapshots, failing) ==
    IF pathnames = <<>> THEN state
    ELSE restoreSnapshots(
            [disk |-> IF Head(pathnames) \in failing
                      THEN state.disk
                      ELSE restoreFileSnapshot(state.disk, Head(pathnames),
                                               snapshots[Head(pathnames)]),
             attempted |-> state.attempted \cup {Head(pathnames)},
             threw |-> FALSE],
            Tail(pathnames), snapshots, failing)

toJsonWrite(pathname, value) == [path |-> pathname, content |-> Text(value)]

\* io.writeConfigFile(nextConfig, writeOptions)
writeConfigFile(d, config) == [d EXCEPT ![ConfigFile] = File(config, "utf8")]

runSecretsApplyModeIgnoringWrite(write, changedFiles) ==
    IF changedFiles = {} THEN "unchanged" ELSE "commit"

\* What runSecretsApply does with a projection that returned.
runSecretsApplyMode(write, changedFiles) ==
    IF ~write THEN "dry-run"
    ELSE IF changedFiles = {} THEN "unchanged"
    ELSE "commit"

\* The writes after the config write, in their order.
runSecretsApplyWrites(projected) ==
    [i \in 1..Cardinality(DOMAIN projected.authStoreByPath) |->
        toJsonWrite(AuthStoreFile, projected.authStoreByPath[AuthStoreFile])]
    \o [i \in 1..Cardinality(DOMAIN projected.authJsonByPath) |->
        toJsonWrite(AuthJsonFile, projected.authJsonByPath[AuthJsonFile])]
    \o [i \in 1..Cardinality(DOMAIN projected.envRawByPath) |->
        [path |-> EnvFile, content |-> projected.envRawByPath[EnvFile]]]

runSecretsApplySnapshots(d, projected) ==
    [f \in {ConfigFile} \cup DOMAIN projected.authStoreByPath
            \cup DOMAIN projected.authJsonByPath \cup DOMAIN projected.envRawByPath |->
        captureFileSnapshot(d, f)]

\* The keys of the snapshots map in insertion order: the config file, then
\* the auth stores, the auth.json files and the env files.
runSecretsApplySnapshotOrder(snapshots) ==
    SelectSeq(<<ConfigFile, AuthStoreFile, AuthJsonFile, EnvFile>>,
              LAMBDA f : f \in DOMAIN snapshots)

\* new Error(`Secrets apply failed: ${String(err)}`, { cause: err })
SecretsApplyError(err) ==
    [message |-> <<"Secrets apply failed: ", err.message>>, cause |-> err]

\* The error a failing write or restore of a file throws.
FileError(operation, pathname) ==
    [message |-> <<operation, " ", pathname>>, cause |-> Null]

SecretsApplyResult(mode, changedFiles, projected) ==
    [threw |-> FALSE, mode |-> mode, changed |-> changedFiles # {},
     changedFiles |-> changedFiles,
     warningCount |-> Len(projected.warnings), warnings |-> projected.warnings]

Returned(outcome) ==
    [pc |-> "done", outcome |-> outcome, projected |-> Null, snapshots |-> Null,
     writes |-> <<>>, next |-> 0]

-----------------------------------------------------------------------------
(* A call of runSecretsApply on a plan, over the files of an installation *)

MaxTargets == 2

PlanTarget(type, path, ref) ==
    [type |-> type, path |-> path, pathSegments |-> <<>>, providerId |-> <<>>,
     accountId |-> <<>>, agentId |-> <<>>, authProfileProvider |-> <<>>, ref |-> ref]

OpenAiKeyPath == <<"models", ".", "providers", ".", "openai", ".", "apiKey">>

ProviderKeyTarget ==
    [PlanTarget("models.providers.apiKey", OpenAiKeyPath, RefV("K1"))
        EXCEPT !.providerId = <<"openai">>]
TalkKeyTarget == PlanTarget("talk.apiKey", <<"talk", ".", "apiKey">>, RefV("K1"))
ProfileKeyTarget ==
    [PlanTarget("auth-profiles.api_key.key",
                <<"profiles", ".", "openai:default", ".", "key">>, RefV("K1"))
        EXCEPT !.agentId = <<"main">>, !.authProfileProvider = <<"openai">>]

\* The providerId supplied is not the one in the path.
ProviderMismatchTarget ==
    [PlanTarget("models.providers.apiKey", OpenAiKeyPath, RefV("K1"))
        EXCEPT !.providerId = <<"anthropic">>]

ValidTargets == {ProviderKeyTarget, TalkKeyTarget, ProfileKeyTarget}

\* One target for each validation rule: a type the registry does not know, a
\* path that does not match the pattern of its type, a forbidden segment,
\* pathSegments that do not re-serialize to path, a providerId mismatch.
InvalidTargets ==
    {PlanTarget("models.providers.token", OpenAiKeyPath, RefV("K1")),
     PlanTarget("models.providers.apiKey",
                <<"models", ".", "providers", ".", "openai", ".", "baseUrl">>, RefV("K1")),
     PlanTarget("models.providers.apiKey",
                <<"models", ".", "providers", ".", "__proto__", ".", "apiKey">>, RefV("K1")),
     [PlanTarget("models.providers.apiKey", <<"talk", ".", "apiKey">>, RefV("K1"))
        EXCEPT !.pathSegments = <<<<"models">>, <<"providers">>, <<"openai">>, <<"apiKey">>>>],
     ProviderMismatchTarget}

ApplyPlans ==
    UNION {[1..n -> ValidTargets \cup InvalidTargets] : n \in 0..MaxTargets}

\* An installation with plaintext keys and a .env file of two lines, the
\* second a comment; encoding: the bytes of the .env file.
PlainInstall(encoding) ==
    [f \in FileNames |->
        CASE f = ConfigFile ->
                File([EmptyConfig EXCEPT ![ProviderApiKeyPath("openai")] = Str("sk-plain")],
                     "utf8")
          [] f = AuthStoreFile ->
                File(StoreWith("openai:default", ApiKeyProfile(Str("sk-plain"), Absent)), "utf8")
          [] f = AuthJsonFile ->
                File([id \in {"openai"} |-> [type |-> "api_key", key |-> Str("sk-plain")]],
                     "utf8")
          [] f = EnvFile ->
                File(<<[key |-> "OPENAI_API_KEY", value |-> "sk-plain"],
                       [key |-> "", value |-> "# keys"]>>, encoding)]

VaultProvider == [source |-> "file", path |-> "secrets.json"]

\* An installation a plan was applied to before: the refs are in place and
\* the provider is configured.
AppliedInstall ==
    [f \in FileNames |->
        IF f = ConfigFile
        THEN File([EmptyConfig EXCEPT
                    ![TalkApiKeyPath] = RefV("K1"),
                    ![ProviderApiKeyPath("openai")] = RefV("K1"),
                    ![SecretsProvidersPath] =
                        ProvidersValue([a \in {"vault"} |-> VaultProvider])], "utf8")
        ELSE IF f = AuthStoreFile
        THEN File(StoreWith("openai:default", ApiKeyProfile(RefV("K1"), Absent)), "utf8")
        ELSE NoFile]

ApplyDisks ==
    {PlainInstall("utf8"), PlainInstall("other"),
     [f \in FileNames |->
        IF f = ConfigFile
        THEN File([EmptyConfig EXCEPT ![GatewayAuthModePath] = Str("password"),
                                      ![GatewayAuthPasswordPath] = RefV("K2")], "utf8")
        ELSE NoFile],
     [f \in FileNames |->
        IF f = AuthStoreFile
        THEN File(StoreWith("openai:default",
                    [type |-> "oauth", provider |-> "openai", key |-> Absent,
                     keyRef |-> Absent]), "utf8")
        ELSE NoFile],
     AppliedInstall}

\* What a plan asks of secrets.providers: nothing, the upsert of a provider,
\* or its deletion.
ProviderChanges ==
    {[upserts |-> <<>>, deletes |-> <<>>],
     [upserts |-> [a \in {"vault"} |-> VaultProvider], deletes |-> <<>>],
     [upserts |-> <<>>, deletes |-> <<"vault">>]}

ApplyProviderValues ==
    {[id \in RefIds |-> IF id = "K1" THEN v[1] ELSE v[2]] :
        v \in {<<Str("sk-live"), Str("sk-live")>>, <<Absent, Str("sk-live")>>,
               <<Obj, Str("sk-live")>>, <<Str("sk-live"), Absent>>}}

ApInit ==
    /\ PrepIdle
    /\ env = Null
    /\ RtIdle
    /\ CallIdle
    /\ disk \in ApplyDisks
    /\ diskBefore = disk
    /\ call \in [plan : {[targets |-> targets, options |-> Null,
                           providerUpserts |-> change.upserts,
                           providerDeletes |-> change.deletes] :
                             targets \in ApplyPlans, change \in ProviderChanges},
                 write : BOOLEAN,
                 providerValues : ApplyProviderValues,
                 throws : BOOLEAN]
    /\ run = [pc |-> "called", outcome |-> Null, projected |-> Null, snapshots |-> Null,
              writes |-> <<>>, next |-> 0]

\* runSecretsApply up to the first write: the projection, then the return of
\* a dry run or of a run without change, or the snapshots and the write list.
ApplyProjects ==
    /\ run.pc = "called"
    /\ \E r \in {projectPlanState(call.plan, disk, call.providerValues, call.throws)} :
       IF r.threw
       THEN run' = Returned([threw |-> TRUE, phase |-> "projection"])
       ELSE LET changedFiles == r.projected.changedFiles
                mode == runSecretsApplyMode(call.write, changedFiles)
            IN  CASE mode = "dry-run" ->
                        run' = Returned(SecretsApplyResult("dry-run", changedFiles, r.projected))
                  [] mode = "unchanged" ->
                        run' = Returned(SecretsApplyResult("write", {}, r.projected))
                  [] mode = "commit" ->
                        run' = [pc |-> "commit", outcome |-> Null,
                                projected |-> r.projected,
                                snapshots |-> runSecretsApplySnapshots(disk, r.projected),
                                writes |-> runSecretsApplyWrites(r.projected),
                                next |-> 0]
    /\ UNCHANGED <<disk, diskBefore, call, prepVars, rtVars, callVars>>

\* The next write of the commit succeeds: the config write first.
ApplyWrites ==
    /\ run.pc = "commit"
    /\ disk' = IF run.next = 0
               THEN writeConfigFile(disk, run.projected.nextConfig)
               ELSE writeTextFileAtomic(disk, run.writes[run.next].path,
                                        run.writes[run.next].content)
    /\ run' = IF run.next = Len(run.writes)
              THEN Returned(SecretsApplyResult("write", run.projected.changedFiles,
                                               run.projected))
              ELSE [run EXCEPT !.next = @ + 1]
    /\ UNCHANGED <<diskBefore, call, prepVars, rtVars, callVars>>

\* The next write of the commit fails, and the catch block runs.  A failing
\* writeTextFileAtomic leaves its target as it was; the config writer may
\* fail before or after it replaced the config file.  Any of the restores
\* may fail in its turn.
ApplyWriteFails ==
    /\ run.pc = "commit"
    /\ \E replaced \in BOOLEAN, failing \in SUBSET DOMAIN run.snapshots :
        /\ replaced => run.next = 0
        /\ \E err \in {FileError("write", IF run.next = 0 THEN ConfigFile
                                            ELSE run.writes[run.next].path)} :
           \E restored \in {restoreSnapshots(
                    [disk |-> IF replaced
                              THEN writeConfigFile(disk, run.projected.nextConfig)
                              ELSE disk,
                     attempted |-> {}, threw |-> FALSE],
                    runSecretsApplySnapshotOrder(run.snapshots),
                    run.snapshots, failing)} :
              /\ disk' = restored.disk
              /\ run' = Returned(
                    [threw |-> TRUE, phase |-> "commit",
                     targeted |-> DOMAIN run.snapshots,
                     restoreAttempts |-> restored.attempted,
                     restoreFailures |-> failing \cap restored.attempted,
                     error |-> IF restored.threw
                               THEN FileError("restore",
                                      CHOOSE f \in failing : f \in restored.attempted)
                               ELSE SecretsApplyError(err)])
    /\ UNCHANGED <<diskBefore, call, prepVars, rtVars, callVars>>

ApNext == ApplyProjects \/ ApplyWrites \/ ApplyWriteFails

SpecApply == ApInit /\ [][ApNext]_vars

-----------------------------------------------------------------------------
(* A plan handed to plan validation *)

DefaultAlias == <<"d", "e", "f", "a", "u", "l", "t">>
VaultAlias == <<"v", "a", "u", "l", "t">>
CapitalAlias == <<"V", "a", "u", "l", "t">>

PlanRef(source, provider, id) == [source |-> source, provider |-> provider, id |-> id]

\* "API_KEY", "api-key", "/key", "/a~2", "api key", " "
PlanRefIdStrings ==
    {<<"A", "P", "I", "_", "K", "E", "Y">>,
     <<"a", "p", "i", "-", "k", "e", "y">>,
     <<"/", "k", "e", "y">>,
     <<"/", "a", "~", "2">>,
     <<"a", "p", "i", " ", "k", "e", "y">>,
     <<" ">>}

PlanRefs ==
    {Null} \cup
    {PlanRef(source, provider, id) :
        source \in {"env", "file", "exec", "keychain"},
        provider \in {DefaultAlias, CapitalAlias, <<" ">>},
        id \in PlanRefIdStrings}

WithRef(target, ref) == [target EXCEPT !.ref = ref]

\* One target under test, alone or after a target that passes.
ValidationTargets ==
    LET candidates == {WithRef(target, ref) :
                          target \in {TalkKeyTarget, ProfileKeyTarget,
                                      ProviderMismatchTarget},
                          ref \in PlanRefs}
        passing == WithRef(TalkKeyTarget,
                      PlanRef("env", DefaultAlias, <<"A", "P", "I", "_", "K", "E", "Y">>))
    IN  {<<candidate>> : candidate \in candidates}
            \cup {<<passing, candidate>> : candidate \in candidates}

ValidationPlans ==
    {[version |-> version, protocolVersion |-> 1, targets |-> targets,
      providerUpserts |-> upserts, providerDeletes |-> deletes] :
        version \in {1, 2},
        targets \in ValidationTargets,
        upserts \in {Null} \cup
                    {[entries |-> [a \in {providerAlias} |-> VaultProvider]] :
                        providerAlias \in {VaultAlias, CapitalAlias}},
        deletes \in {Null} \cup
                    {[aliases |-> <<providerAlias>>] :
                        providerAlias \in {VaultAlias, CapitalAlias}}}

ValidationInit ==
    /\ input \in [plan : ValidationPlans]
    /\ output = Null
    /\ reloader = Null
    /\ PrepIdle
    /\ env = Null
    /\ RtIdle
    /\ ApIdle

\* The plan file is read and validated.
ValidatesPlan ==
    /\ input # Null
    /\ output = Null
    /\ output' = [accepted |-> isSecretsApplyPlan(input.plan)]
    /\ UNCHANGED <<input, reloader, prepVars, rtVars, apVars>>

SpecPlanValidation == ValidationInit /\ [][ValidatesPlan]_vars

-----------------------------------------------------------------------------
(* The secrets.resolve handler of the gateway: createSecretsHandlers.  A    *)
(* string of a request is the sequence of its pieces, "" the empty one.     *)

MaxTargetIds == 2

\* validateSecretsResolveParams: commandName is a string of one character
\* at least, targetIds an array of such strings, and there is no other
\* property.  Result: the field at fault, or "" when the params are valid.
invalidSecretsResolveField(requestParams) ==
    IF Len(requestParams.commandName) = 0 THEN "commandName"
    ELSE IF \/ requestParams.additionalProperties
            \/ \E i \in 1..Len(requestParams.targetIds) :
                    Len(requestParams.targetIds[i]) = 0
    THEN "targetIds"
    ELSE ""

errorShape(code, message) == [code |-> code, message |-> message]

\* respond(ok, payload, error), and the call of params.resolveSecrets the
\* handler made, if any.
Respond(ok, payload, error, calls) ==
    [ok |-> ok, payload |-> payload, error |-> error, resolveSecretsCalls |-> calls]

\* resolver: what params.resolveSecrets does when called: it returns a
\* result ("result"), a result of another shape ("invalid"), or throws.
secretsResolveHandler(requestParams, resolver) ==
    LET field == invalidSecretsResolveField(requestParams)
        commandName == StringTrim(requestParams.commandName)
        targetIds == SelectSeq([i \in 1..Len(requestParams.targetIds) |->
                                    StringTrim(requestParams.targetIds[i])],
                               LAMBDA entry : Len(entry) > 0)
        unknown == {i \in 1..Len(targetIds) : ~isKnownSecretTargetId(targetIds[i])}
        resolveCall == [commandName |-> commandName, targetIds |-> targetIds]
    IN  IF field # ""
        THEN Respond(FALSE, Null,
                errorShape("INVALID_REQUEST",
                           <<"invalid secrets.resolve params: ", field>>), <<>>)
        ELSE IF Len(commandName) = 0
        THEN Respond(FALSE, Null,
                errorShape("INVALID_REQUEST",
                           <<"invalid secrets.resolve params: ", "commandName">>), <<>>)
        ELSE IF unknown # {}
        THEN Respond(FALSE, Null,
                errorShape("INVALID_REQUEST",
                           <<"invalid secrets.resolve params: unknown target id ",
                             targetIds[CHOOSE i \in unknown : \A k \in unknown : i <= k]>>),
                <<>>)
        ELSE IF resolver = "result"
        THEN Respond(TRUE, [ok |-> TRUE, requested |-> targetIds], Null, <<resolveCall>>)
        ELSE Respond(FALSE, Null,
                errorShape("UNAVAILABLE",
                           <<IF resolver = "throws" THEN "Error: resolveSecrets"
                             ELSE "Error: secrets.resolve returned invalid payload.",
                             "">>),
                <<resolveCall>>)

TalkTargetId == <<"talk", ".", "apiKey">>

\* "talk.apiKey", " talk.apiKey ", "models.providers.*.apiKey",
\* "unknown.target", "talk", " ", ""
RequestTargetIds ==
    {TalkTargetId, <<" ">> \o TalkTargetId \o <<" ">>,
     <<"models", ".", "providers", ".", "*", ".", "apiKey">>,
     <<"unknown", ".", "target">>, <<"talk">>, <<" ">>, <<>>}

ResolveRequests ==
    [commandName : {<<"memory", " ", "status">>, <<" ">>, <<>>},
     targetIds : UNION {[1..n -> RequestTargetIds] : n \in 0..MaxTargetIds},
     additionalProperties : BOOLEAN]

ResolveInit ==
    /\ input \in [requestParams : ResolveRequests,
                   resolver : {"result", "invalid", "throws"}]
    /\ output = Null
    /\ reloader = Null
    /\ PrepIdle
    /\ env = Null
    /\ RtIdle
    /\ ApIdle

\* The gateway receives a secrets.resolve request and answers it.
HandlesSecretsResolve ==
    /\ input # Null
    /\ output = Null
    /\ output' = secretsResolveHandler(input.requestParams, input.resolver)
    /\ UNCHANGED <<input, reloader, prepVars, rtVars, apVars>>

SpecResolveRequest == ResolveInit /\ [][HandlesSecretsResolve]_vars

-----------------------------------------------------------------------------
(* Command secrets read from a snapshot: command-config.ts *)

\* The segments of a path of the config tree, each a string of one piece.
SegmentsOf(path) == [i \in 1..Len(path) |-> <<path[i]>>]

\* The dot path of a path of the config tree.
DotPathOfSegments(path) == toDotPath(SegmentsOf(path))

\* The targets of openclaw.json for the ids given, in the order of the ids:
\* per entry of an id, the paths of the config that match the entry's
\* pattern.  No openclaw.json entry of the model has a sibling ref field.
discoverConfigSecretTargetsByIds(config, targetIds) ==
    LET allowedTargetIds ==
            SelectSeq([i \in 1..Len(targetIds) |-> StringTrim(targetIds[i])],
                      LAMBDA entry : Len(entry) > 0)
        entriesOf(targetId) ==
            SelectSeq([i \in 1..Len(SECRET_TARGET_REGISTRY) |->
                          compileTargetRegistryEntry(SECRET_TARGET_REGISTRY[i])],
                      LAMBDA entry : /\ entry.configFile = "openclaw.json"
                                     /\ entry.id = targetId)
        targetsOf(entry) ==
            LET matching == {path \in DOMAIN config :
                                matchPathTokens(SegmentsOf(path), entry.pathTokens) # Null}
                paths == SetToSeq(matching)
            IN  [i \in 1..Len(paths) |->
                    [entry |-> entry,
                     path |-> toDotPath(SegmentsOf(paths[i])),
                     pathSegments |-> SegmentsOf(paths[i]),
                     value |-> config[paths[i]],
                     refValue |-> Absent]]
        RECURSIVE flatMap(_)
        flatMap(ids) ==
            IF ids = <<>> THEN <<>>
            ELSE (IF entriesOf(Head(ids)) = <<>> THEN <<>>
                  ELSE targetsOf(entriesOf(Head(ids))[1])) \o flatMap(Tail(ids))
    IN  flatMap(allowedTargetIds)

CommandSecretsError(commandName, path) ==
    [threw |-> TRUE,
     error |-> <<commandName, ": ", path, " is unresolved in the active runtime snapshot.">>]

\* The loop over the discovered targets when the inactive paths are not
\* consulted.
RECURSIVE collectCommandSecretAssignmentsIgnoringInactive(_, _, _)
collectCommandSecretAssignmentsIgnoringInactive(targets, params, result) ==
    IF targets = <<>> THEN result
    ELSE LET target == Head(targets)
             r == resolveSecretInputRef(target.value, target.refValue)
             resolved == getPath(params.resolvedConfig, target.pathSegments)
         IN  IF r.ref = Absent
             THEN collectCommandSecretAssignmentsIgnoringInactive(Tail(targets), params, result)
             ELSE IF ~isExpectedResolvedSecretValue(resolved,
                                                    target.entry.expectedResolvedValue)
             THEN CommandSecretsError(params.commandName, target.path)
             ELSE collectCommandSecretAssignmentsIgnoringInactive(Tail(targets), params,
                    [result EXCEPT !.assignments =
                        Append(@, [path |-> target.path,
                                   pathSegments |-> target.pathSegments,
                                   value |-> resolved])])

\* The loop over the discovered targets.  result = [threw, assignments,
\* diagnostics]; the result of a throw is [threw, error].
RECURSIVE collectCommandSecretAssignments(_, _, _)
collectCommandSecretAssignments(targets, params, result) ==
    IF targets = <<>> THEN result
    ELSE LET target == Head(targets)
             r == resolveSecretInputRef(target.value, target.refValue)
             inlineCandidateRef == IF r.explicitRef # Absent
                                   THEN coerceSecretRef(target.value) ELSE Absent
             resolved == getPath(params.resolvedConfig, target.pathSegments)
         IN  IF r.ref = Absent
             THEN collectCommandSecretAssignments(Tail(targets), params, result)
             ELSE IF ~isExpectedResolvedSecretValue(resolved,
                                                    target.entry.expectedResolvedValue)
             THEN IF target.path \in params.inactiveRefPaths
                  THEN collectCommandSecretAssignments(Tail(targets), params,
                          [result EXCEPT !.diagnostics =
                              Append(@, <<target.path, ": secret ref is configured on an inactive surface; skipping command-time assignment.">>)])
                  ELSE CommandSecretsError(params.commandName, target.path)
             ELSE collectCommandSecretAssignments(Tail(targets), params,
                    [result EXCEPT
                        !.assignments =
                            Append(@, [path |-> target.path,
                                       pathSegments |-> target.pathSegments,
                                       value |-> resolved]),
                        !.diagnostics =
                            IF /\ target.entry.secretShape = "sibling_ref"
                               /\ r.explicitRef # Absent
                               /\ inlineCandidateRef # Absent
                            THEN Append(@, <<target.path, ": both inline and sibling ref were present; sibling ref took precedence.">>)
                            ELSE @])

collectCommandSecretAssignmentsFromSnapshot(params) ==
    collectCommandSecretAssignments(
        discoverConfigSecretTargetsByIds(params.sourceConfig, params.targetIds),
        params,
        [threw |-> FALSE, assignments |-> <<>>, diagnostics |-> <<>>])

MaxCommandTargetIds == 2

ProviderTargetId == <<"models", ".", "providers", ".", "*", ".", "apiKey">>

\* The ids a command asks for: a sequence without repetition.
CommandTargetIds ==
    {ids \in UNION {[1..n -> {TalkTargetId, ProviderTargetId,
                               <<"unknown", ".", "target">>}] :
                        n \in 0..MaxCommandTargetIds} :
        \A i, k \in DOMAIN ids : i # k => ids[i] # ids[k]}

\* A source config and what the snapshot holds for it at the two paths.
CommandConfigs ==
    {[sourceConfig |-> [EmptyConfig EXCEPT ![TalkApiKeyPath] = sourceValue[1],
                                           ![ProviderApiKeyPath("openai")] = sourceValue[2]],
      resolvedConfig |-> [EmptyConfig EXCEPT ![TalkApiKeyPath] = snapshotValue[1],
                                             ![ProviderApiKeyPath("openai")] = snapshotValue[2]]] :
        sourceValue \in {Absent, Str("plain"), RefV("K1")} \X {Absent, RefV("K2")},
        snapshotValue \in {Absent, Str("sk-live"), Str(" "), Obj, RefV("K1")}
                    \X {Str("sk-live"), RefV("K2")}}

CommandInit ==
    /\ input \in {[sourceConfig |-> c.sourceConfig, resolvedConfig |-> c.resolvedConfig,
                    commandName |-> commandName, targetIds |-> targetIds,
                    inactiveRefPaths |-> inactive] :
                      c \in CommandConfigs,
                      commandName \in {"memory status", "memory search"},
                      targetIds \in CommandTargetIds,
                      inactive \in SUBSET {toDotPath(SegmentsOf(TalkApiKeyPath)),
                                           toDotPath(SegmentsOf(ProviderApiKeyPath("openai")))}}
    /\ output = Null
    /\ reloader = Null
    /\ PrepIdle
    /\ env = Null
    /\ RtIdle
    /\ ApIdle

\* A command asks for its secrets from the snapshot.
CollectsCommandSecrets ==
    /\ input # Null
    /\ output = Null
    /\ output' = collectCommandSecretAssignmentsFromSnapshot(input)
    /\ UNCHANGED <<input, reloader, prepVars, rtVars, apVars>>

SpecCommandSecrets == CommandInit /\ [][CollectsCommandSecrets]_vars

-----------------------------------------------------------------------------
(* Command secrets fetched from the gateway: command-secret-gateway.ts.  A  *)
(* diagnostic is <<path, rest>>: the text before the first ":" as a dot     *)
(* path, and the text from that ":" on.  The gateway is what callGateway    *)
(* does when called: it throws, or it answers with a payload.               *)

InactiveSurfaceMarker == ": secret ref is configured on an inactive surface;"

InactiveSurfaceRest ==
    ": secret ref is configured on an inactive surface; skipping command-time assignment."

\* Result: [threw, changed, root].
setPathExistingStrict(root, segments, value) ==
    IF Len(segments) = 0 \/ getPath(root, segments) = Absent
    THEN [threw |-> TRUE, changed |-> FALSE, root |-> root]
    ELSE [threw |-> FALSE, changed |-> getPath(root, segments) # value,
          root |-> [root EXCEPT ![PathKeys(segments)] = value]]

isConfiguredSecretRefTargetAlways(config, targetIds) == TRUE

isConfiguredSecretRefTarget(config, targetIds) ==
    \E targets \in {discoverConfigSecretTargetsByIds(config, targetIds)} :
        \E i \in DOMAIN targets :
            resolveSecretInputRef(targets[i].value, targets[i].refValue).ref # Absent

\* Result: [threw, assignments, diagnostics].
parseGatewaySecretsResolveResult(payload) ==
    IF ~payload.valid
    THEN [threw |-> TRUE, assignments |-> <<>>, diagnostics |-> <<>>]
    ELSE [threw |-> FALSE,
          assignments |-> payload.assignments,
          diagnostics |-> SelectSeq(payload.diagnostics,
                              LAMBDA entry : ~(/\ StringTrim(entry[1]) = <<>>
                                               /\ Trim(entry[2]) = ""))]

\* indexOf(marker) of an entry <<path, rest>> is the length of path when rest
\* begins with the marker.
StartsWithInactiveSurfaceMarker(rest) == rest = InactiveSurfaceRest

collectInactiveSurfacePathsFromDiagnosticsOfAnyKind(diagnostics) ==
    {StringTrim(diagnostics[i][1]) : i \in DOMAIN diagnostics}

collectInactiveSurfacePathsFromDiagnostics(diagnostics) ==
    {StringTrim(diagnostics[i][1]) :
        i \in {k \in DOMAIN diagnostics :
                  /\ StartsWithInactiveSurfaceMarker(diagnostics[k][2])
                  /\ Len(diagnostics[k][1]) > 0
                  /\ Len(StringTrim(diagnostics[k][1])) > 0}}

\* The loop that writes the gateway's assignments into the clone of the
\* config.  Result: [threw, path, config].
RECURSIVE applyGatewayAssignments(_, _)
applyGatewayAssignments(assignments, resolvedConfig) ==
    IF assignments = <<>>
    THEN [threw |-> FALSE, path |-> <<>>, config |-> resolvedConfig]
    ELSE Only({
           IF Len(pathSegments) = 0
           THEN applyGatewayAssignments(Tail(assignments), resolvedConfig)
           ELSE Only({
                  IF written.threw
                  THEN [threw |-> TRUE, path |-> toDotPath(pathSegments),
                        config |-> resolvedConfig]
                  ELSE applyGatewayAssignments(Tail(assignments), written.root) :
                  written \in {setPathExistingStrict(resolvedConfig, pathSegments,
                                                     Head(assignments).value)}}) :
           pathSegments \in {SelectSeq(Head(assignments).pathSegments,
                                       LAMBDA segment : Len(segment) > 0)}})

CommandGatewayError(calls, message) ==
    [threw |-> TRUE, calls |-> calls, error |-> message]

\* Result: [threw, calls, error] or [threw, calls, resolvedConfig,
\* diagnostics]; calls is the number of calls of callGateway made.
resolveCommandSecretRefsViaGateway(params, gateway) ==
    IF ~isConfiguredSecretRefTarget(params.config, params.targetIds)
    THEN [threw |-> FALSE, calls |-> 0, resolvedConfig |-> params.config,
          diagnostics |-> <<>>]
    ELSE IF gateway.throws
    THEN CommandGatewayError(1, <<params.commandName,
            ": failed to resolve secrets from the active gateway snapshot">>)
    ELSE LET parsed == parseGatewaySecretsResolveResult(gateway.payload)
             applied == applyGatewayAssignments(parsed.assignments, params.config)
             checked == collectCommandSecretAssignmentsFromSnapshot(
                            [sourceConfig |-> params.config,
                             resolvedConfig |-> applied.config,
                             commandName |-> params.commandName,
                             targetIds |-> params.targetIds,
                             inactiveRefPaths |->
                                 collectInactiveSurfacePathsFromDiagnostics(
                                     parsed.diagnostics)])
         IN  IF parsed.threw
             THEN CommandGatewayError(1, <<"gateway returned invalid secrets.resolve payload.">>)
             ELSE IF applied.threw
             THEN CommandGatewayError(1, <<params.commandName,
                     ": failed to apply resolved secret assignment at ", applied.path>>)
             ELSE IF checked.threw
             THEN CommandGatewayError(1, checked.error)
             ELSE [threw |-> FALSE, calls |-> 1, resolvedConfig |-> applied.config,
                   diagnostics |-> parsed.diagnostics]

\* What the gateway answers: per path at most one assignment, possibly one
\* more to a path the local config has not or to no path at all, and any of
\* three diagnostics.
GatewayAssignments ==
    {talk \o provider \o other :
        talk \in {<<>>} \cup
                 {<<[pathSegments |-> SegmentsOf(TalkApiKeyPath), value |-> v]>> :
                     v \in {Str("sk-live"), Str(" ")}},
        provider \in {<<>>,
                      <<[pathSegments |-> <<<<"models">>, <<>>, <<"providers">>,
                                            <<"openai">>, <<"apiKey">>>>,
                         value |-> Str("sk-live")]>>},
        other \in {<<>>,
                   <<[pathSegments |-> SegmentsOf(<<"talk", "providers", "elevenlabs", "apiKey">>),
                      value |-> Str("sk-live")]>>,
                   <<[pathSegments |-> <<<<>>>>, value |-> Str("sk-live")]>>}}

GatewayDiagnostics ==
    {talk \o provider \o other :
        talk \in {<<>>, <<<<DotPathOfSegments(TalkApiKeyPath), InactiveSurfaceRest>>>>},
        provider \in {<<>>,
                       <<<<DotPathOfSegments(ProviderApiKeyPath("openai")),
                           ": both inline and sibling ref were present; sibling ref took precedence.">>>>,
                       <<<<DotPathOfSegments(ProviderApiKeyPath("openai")), InactiveSurfaceRest>>>>},
        other \in {<<>>, <<<< <<>>, " ">>>>}}

Gateways ==
    {[throws |-> TRUE, payload |-> [valid |-> FALSE, assignments |-> <<>>, diagnostics |-> <<>>]],
     [throws |-> FALSE, payload |-> [valid |-> FALSE, assignments |-> <<>>, diagnostics |-> <<>>]]}
    \cup {[throws |-> FALSE,
           payload |-> [valid |-> TRUE, assignments |-> a, diagnostics |-> g]] :
             a \in GatewayAssignments, g \in GatewayDiagnostics}

CommandGatewayInit ==
    /\ input \in {[config |-> [EmptyConfig EXCEPT ![TalkApiKeyPath] = local[1],
                                                  ![ProviderApiKeyPath("openai")] = local[2]],
                    commandName |-> "memory status",
                    targetIds |-> targetIds,
                    gateway |-> gateway] :
                      local \in {Absent, Str("plain"), RefV("K1")} \X {Absent, RefV("K2")},
                      targetIds \in CommandTargetIds,
                      gateway \in Gateways}
    /\ output = Null
    /\ reloader = Null
    /\ PrepIdle
    /\ env = Null
    /\ RtIdle
    /\ ApIdle

\* A command resolves its secrets through the gateway.
ResolvesViaGateway ==
    /\ input # Null
    /\ output = Null
    /\ output' = resolveCommandSecretRefsViaGateway(
                      [config |-> input.config, commandName |-> input.commandName,
                       targetIds |-> input.targetIds],
                      input.gateway)
    /\ UNCHANGED <<input, reloader, prepVars, rtVars, apVars>>

SpecCommandGateway == CommandGatewayInit /\ [][ResolvesViaGateway]_vars

-----------------------------------------------------------------------------
(* Active and inactive surfaces, as the documentation states them *)

\* The ref in effect for a sibling-ref target: the sibling ref field when it
\* holds a ref, else the value itself when it is a ref.
EffectiveRef(value, refValue) ==
    IF refValue.t = "ref" THEN refValue
    ELSE IF value.t = "ref" THEN value ELSE Absent

\* Paths of the config whose surface is inactive and that hold a ref.
InactiveRefPaths(config) ==
    {p \in {ProviderApiKeyPath(id) : id \in ModelProviderIds} :
        /\ config[p].t = "ref"
        /\ config[<<p[1], p[2], p[3], "enabled">>] = Bool(FALSE)}
    \cup {p \in {GatewayAuthPasswordPath} :
        config[p].t = "ref" /\ config[GatewayAuthModePath] # Str("password")}
    \cup {p \in {GoogleChatServiceAccountPath, GoogleChatServiceAccountRefPath} :
        /\ EffectiveRef(config[GoogleChatServiceAccountPath],
                        config[GoogleChatServiceAccountRefPath]) # Absent
        /\ config[GoogleChatEnabledPath] = Bool(FALSE)}

\* The refs on active surfaces, each with the shape expected of its value.
ActiveRefs(config, stores) ==
    {[ref |-> config[p], expected |-> "string"] :
        p \in {q \in {ProviderApiKeyPath(id) : id \in ModelProviderIds} :
                /\ config[q].t = "ref"
                /\ config[<<q[1], q[2], q[3], "enabled">>] # Bool(FALSE)}}
    \cup {[ref |-> config[p], expected |-> "string"] :
        p \in {q \in {TalkApiKeyPath} : config[q].t = "ref"}}
    \cup {[ref |-> config[p], expected |-> "string"] :
        p \in {q \in {GatewayAuthPasswordPath} :
                config[q].t = "ref" /\ config[GatewayAuthModePath] = Str("password")}}
    \cup {[ref |-> EffectiveRef(config[GoogleChatServiceAccountPath],
                                config[GoogleChatServiceAccountRefPath]),
           expected |-> "string-or-object"] :
        p \in {q \in {GoogleChatPath} :
                /\ EffectiveRef(config[GoogleChatServiceAccountPath],
                                config[GoogleChatServiceAccountRefPath]) # Absent
                /\ config[GoogleChatEnabledPath] # Bool(FALSE)}}
    \cup {[ref |-> EffectiveRef(stores[d[1]].profiles[d[2]].key,
                                stores[d[1]].profiles[d[2]].keyRef),
           expected |-> "string"] :
        d \in {e \in AgentDirs \X ProfileIds :
                /\ e[2] \in DOMAIN stores[e[1]].profiles
                /\ stores[e[1]].profiles[e[2]].type = "api_key"
                /\ EffectiveRef(stores[e[1]].profiles[e[2]].key,
                                stores[e[1]].profiles[e[2]].keyRef) # Absent}}

\* "A non-empty string for expected=string; a non-empty string or a mapping
\* for string-or-object."
HasStatedShape(value, expected) ==
    \/ value.t = "str" /\ value.s # ""
    \/ expected = "string-or-object" /\ value.t \in {"obj", "ref"}

-----------------------------------------------------------------------------
(* What readers of the runtime state obtain *)

\* What a call of getActiveSecretsRuntimeSnapshot made now returns.
LaterGet ==
    Only({Contents(r.modules.heap, r.returned) :
            r \in {getActiveSecretsRuntimeSnapshot(CurrentModules)}})

\* What loadConfig() serves while a runtime config snapshot is installed.
ServedConfig ==
    IF runtimeConfigSnapshot = Null THEN Null
    ELSE [config |-> heap[runtimeConfigSnapshot.config],
          sourceConfig |-> heap[runtimeConfigSnapshot.sourceConfig]]

\* What ensureAuthProfileStore() serves while store snapshots are installed.
ServedAuthStores ==
    IF runtimeAuthStoreSnapshots = Null THEN Null
    ELSE heap[runtimeAuthStoreSnapshots.authStores]

ReaderView == <<LaterGet, ServedConfig, ServedAuthStores>>

\* Some ref on an active surface of the environment has no value at its
\* provider, or a value that is not of the expected shape.
SomeActiveRefUnusable(e) ==
    \E a \in ActiveRefs(e.config, e.stores) :
        \/ e.providerValues[a.ref.id] = Absent
        \/ ~HasStatedShape(e.providerValues[a.ref.id], a.expected)

-----------------------------------------------------------------------------
(* The secrets audit: the report made from the collected findings and the   *)
(* exit code of the command.  A finding is kept by its code.                *)

SecretsAuditCodes == {"PLAINTEXT_FOUND", "REF_UNRESOLVED", "REF_SHADOWED", "LEGACY_RESIDUE"}

\* findings.filter((entry) => entry.code === code).length
CountOfCode(findings, code) ==
    Cardinality({i \in DOMAIN findings : findings[i].code = code})

summarizeFindings(findings) ==
    [plaintextCount |-> CountOfCode(findings, "PLAINTEXT_FOUND"),
     unresolvedRefCount |-> CountOfCode(findings, "REF_UNRESOLVED"),
     shadowedRefCount |-> CountOfCode(findings, "REF_SHADOWED"),
     legacyResidueCount |-> CountOfCode(findings, "LEGACY_RESIDUE")]

\* The end of runSecretsAudit, from the findings the collector holds.
runSecretsAudit(findings) ==
    LET summary == summarizeFindings(findings) IN
    [version |-> 1,
     status |-> IF summary.unresolvedRefCount > 0 THEN "unresolved"
                ELSE IF Len(findings) > 0 THEN "findings"
                ELSE "clean",
     summary |-> summary,
     findings |-> findings]

resolveSecretsAuditExitCodeCheckFirst(report, check) ==
    IF check /\ Len(report.findings) > 0 THEN 1
    ELSE IF report.summary.unresolvedRefCount > 0 THEN 2
    ELSE 0

resolveSecretsAuditExitCode(report, check) ==
    IF report.summary.unresolvedRefCount > 0 THEN 2
    ELSE IF check /\ Len(report.findings) > 0 THEN 1
    ELSE 0

MaxFindings == 3

\* What the collectors found, and whether the command was given --check.
AuditInit ==
    /\ input \in {[findings |-> [i \in DOMAIN codes |-> [code |-> codes[i]]],
                   check |-> check] :
                    codes \in UNION {[1..n -> SecretsAuditCodes] : n \in 0..MaxFindings},
                    check \in BOOLEAN}
    /\ output = Null
    /\ reloader = Null
    /\ PrepIdle
    /\ env = Null
    /\ RtIdle
    /\ ApIdle

\* openclaw secrets audit: the report is made.
RunsSecretsAudit ==
    /\ input # Null
    /\ output = Null
    /\ output' = [report |-> runSecretsAudit(input.findings), exited |-> FALSE, exitCode |-> 0]
    /\ UNCHANGED <<input, reloader, prepVars, rtVars, apVars>>

\* The command ends with the exit code of the report.
ExitsWithAuditCode ==
    /\ output # Null
    /\ ~output.exited
    /\ output' = [output EXCEPT
                    !.exited = TRUE,
                    !.exitCode = resolveSecretsAuditExitCode(output.report, input.check)]
    /\ UNCHANGED <<input, reloader, prepVars, rtVars, apVars>>

AuditNext == RunsSecretsAudit \/ ExitsWithAuditCode

SpecAudit == AuditInit /\ [][AuditNext]_vars

-----------------------------------------------------------------------------
(* The interactive secrets configure flow: configure.ts.  The terminal, the  *)
(* config snapshot, the auth-profiles file of the agent and the answers of   *)
(* the user are the input; the run goes through its steps, counts the reads  *)
(* of the auth-profiles file and ends with a plan or with an error.          *)

\* readJsonObjectIfExists(storePath) on the auth-profiles file of the agent.
readAuthProfilesFile(file) ==
    CASE file = "missing" -> [value |-> Null, error |-> ""]
      [] file = "unreadable" -> [value |-> Null, error |-> "boom"]
      [] file = "noProfiles" -> [value |-> [profiles |-> Absent], error |-> ""]
      [] OTHER -> [value |-> [profiles |-> Obj], error |-> ""]

\* loadAuthProfileStoreForConfigure: [threw, error] or [threw, store].
loadAuthProfileStoreForConfigure(file) ==
    LET parsed == readAuthProfilesFile(file) IN
    IF parsed.error # ""
    THEN [threw |-> TRUE, error |-> "auth-profiles could not be read"]
    ELSE IF parsed.value = Null
    THEN [threw |-> FALSE, store |-> [profiles |-> Obj]]
    ELSE IF ~isRecord(parsed.value.profiles)
    THEN [threw |-> TRUE, error |-> "auth-profiles is invalid"]
    ELSE [threw |-> FALSE, store |-> parsed.value]

\* hasConfigurePlanChanges({selectedTargets, providerChanges})
hasConfigurePlanChanges(selectedTargets, providerChanges) ==
    selectedTargets # {} \/ providerChanges # {}

ConfigureFailed(state, error) == [state EXCEPT !.pc = "failed", !.error = error]

\* What the user does at the provider menu and at the credential menu.
ProviderAnswers == {"continue", "add", "cancel"}
TargetAnswers == {"select", "cancel"}

ConfigureInit ==
    /\ input \in [isTTY : BOOLEAN, providersOnly : BOOLEAN, skipProviderSetup : BOOLEAN,
                  snapshotValid : BOOLEAN,
                  authProfilesFile : {"missing", "unreadable", "noProfiles", "readable"},
                  candidates : {{}, {"talk.apiKey"}},
                  providerAnswer : ProviderAnswers, targetAnswer : TargetAnswers]
    /\ output = [pc |-> "start", error |-> "", authProfilesReads |-> 0,
                 providerChanges |-> {}, selected |-> {}]
    /\ reloader = Null
    /\ PrepIdle
    /\ env = Null
    /\ RtIdle
    /\ ApIdle

ConfigureUnchanged == UNCHANGED <<input, reloader, prepVars, rtVars, apVars>>

\* Lines 791-803: the terminal, the options and the config snapshot.
ReadsConfigSnapshot ==
    /\ output.pc = "start"
    /\ output' =
          IF ~input.isTTY
          THEN ConfigureFailed(output, "secrets configure requires an interactive TTY.")
          ELSE IF input.providersOnly /\ input.skipProviderSetup
          THEN ConfigureFailed(output, "Cannot combine --providers-only with --skip-provider-setup.")
          ELSE IF ~input.snapshotValid
          THEN ConfigureFailed(output, "config is invalid")
          ELSE [output EXCEPT !.pc = "authStore"]
    /\ ConfigureUnchanged

\* Lines 805-809: the auth-profiles store of the agent is loaded.
LoadsAuthProfileStore ==
    /\ output.pc = "authStore"
    /\ \E loaded \in {loadAuthProfileStoreForConfigure(input.authProfilesFile)} :
          output' =
              IF loaded.threw
              THEN [ConfigureFailed(output, loaded.error) EXCEPT !.authProfilesReads = @ + 1]
              ELSE [output EXCEPT !.pc = "providers", !.authProfilesReads = @ + 1]
    /\ ConfigureUnchanged

\* Lines 811-818: the provider setup, unless it is skipped, and its changes.
ConfiguresProviders ==
    /\ output.pc = "providers"
    /\ output' =
          IF input.skipProviderSetup THEN [output EXCEPT !.pc = "targets"]
          ELSE IF input.providerAnswer = "cancel"
          THEN ConfigureFailed(output, "Secrets configure cancelled.")
          ELSE [output EXCEPT
                  !.pc = "targets",
                  !.providerChanges = IF input.providerAnswer = "add" THEN {"vault"} ELSE {}]
    /\ ConfigureUnchanged

\* Lines 820-1003: the credential fields, unless the run is providers-only.
SelectsTargets ==
    /\ output.pc = "targets"
    /\ output' =
          IF input.providersOnly THEN [output EXCEPT !.pc = "plan"]
          ELSE IF input.candidates = {}
          THEN ConfigureFailed(output, "No configurable secret-bearing fields found for this agent scope.")
          ELSE IF input.targetAnswer = "cancel"
          THEN ConfigureFailed(output, "Secrets configure cancelled.")
          ELSE [output EXCEPT !.pc = "plan", !.selected = input.candidates]
    /\ ConfigureUnchanged

\* Lines 1005-1020: the plan and its preflight.
BuildsConfigurePlan ==
    /\ output.pc = "plan"
    /\ output' =
          IF ~hasConfigurePlanChanges(output.selected, output.providerChanges)
          THEN ConfigureFailed(output, "No secrets changes were selected.")
          ELSE [output EXCEPT !.pc = "done"]
    /\ ConfigureUnchanged

ConfigureNext ==
    \/ ReadsConfigSnapshot
    \/ LoadsAuthProfileStore
    \/ ConfiguresProviders
    \/ SelectsTargets
    \/ BuildsConfigurePlan

SpecConfigure == ConfigureInit /\ [][ConfigureNext]_vars

-----------------------------------------------------------------------------
(* The Tlon outbound session: extensions/tlon/src/outbound-session.ts.  A    *)
(* text is the sequence of its pieces: a blank, "~", "/", a prefix with its  *)
(* colon in either case, or a word.                                          *)

TlonPieces == {" ", "~", "/", "tlon:", "dm:", "DM:", "group:", "chat", "zod"}

\* toLowerCase, piece by piece.
LowerPiece(piece) == IF piece = "DM:" THEN "dm:" ELSE piece

toLowerCase(text) == [i \in DOMAIN text |-> LowerPiece(text[i])]

RECURSIVE trimStart(_)
trimStart(text) ==
    IF text # <<>> /\ Head(text) = " " THEN trimStart(Tail(text)) ELSE text

RECURSIVE trimEnd(_)
trimEnd(text) ==
    IF text # <<>> /\ text[Len(text)] = " "
    THEN trimEnd(SubSeq(text, 1, Len(text) - 1))
    ELSE text

\* String.prototype.trim
trim(text) == trimEnd(trimStart(text))

startsWith(text, prefix) ==
    Len(text) >= Len(prefix) /\ SubSeq(text, 1, Len(prefix)) = prefix

\* text.replace(/^<prefix>/i, "") for a prefix of one piece.
removePrefixIgnoringCase(text, prefixes) ==
    IF text # <<>> /\ LowerPiece(Head(text)) \in prefixes THEN Tail(text) ELSE text

\* text.split("/").filter(Boolean): the non-empty parts between the slashes.
RECURSIVE splitOnSlash(_, _)
splitOnSlash(text, part) ==
    IF text = <<>> THEN (IF part = <<>> THEN <<>> ELSE <<part>>)
    ELSE IF Head(text) = "/"
    THEN (IF part = <<>> THEN <<>> ELSE <<part>>) \o splitOnSlash(Tail(text), <<>>)
    ELSE splitOnSlash(Tail(text), Append(part, Head(text)))

includesSlash(text) == \E i \in DOMAIN text : text[i] = "/"

normalizeTlonShip(raw) ==
    LET trimmed == trim(raw) IN
    IF trimmed = <<>> THEN trimmed
    ELSE IF startsWith(trimmed, <<"~">>) THEN trimmed
    ELSE <<"~">> \o trimmed

\* chat/<ship>/<name> of two parts.
ChatPeerId(parts) == <<"chat", "/">> \o normalizeTlonShip(parts[1]) \o <<"/">> \o parts[2]

TlonSession(isGroup, peerId) ==
    [peer |-> [kind |-> IF isGroup THEN "group" ELSE "direct", id |-> peerId],
     chatType |-> IF isGroup THEN "group" ELSE "direct",
     from |-> IF isGroup THEN <<"tlon:", "group:">> \o peerId ELSE <<"tlon:">> \o peerId,
     to |-> <<"tlon:">> \o peerId]

resolveTlonOutboundSession(target) ==
    IF trim(target) = <<>> THEN Null
    ELSE
    LET trimmed == trim(removePrefixIgnoringCase(trim(target), {"tlon:"}))
        lower == toLowerCase(trimmed)
    IN  IF trimmed = <<>> THEN Null
        ELSE IF startsWith(lower, <<"group:">>) \/ startsWith(lower, <<"room:">>)
        THEN LET peerId == trim(removePrefixIgnoringCase(trimmed, {"group:", "room:"}))
                 parts == splitOnSlash(peerId, <<>>)
             IN  TlonSession(TRUE,
                    IF ~startsWith(peerId, <<"chat", "/">>) /\ Len(parts) = 2
                    THEN ChatPeerId(parts)
                    ELSE peerId)
        ELSE IF startsWith(lower, <<"dm:">>)
        THEN TlonSession(FALSE, normalizeTlonShip(Tail(trimmed)))
        ELSE IF startsWith(lower, <<"chat", "/">>)
        THEN TlonSession(TRUE, trimmed)
        ELSE IF includesSlash(trimmed)
        THEN LET parts == splitOnSlash(trimmed, <<>>) IN
             IF Len(parts) = 2 THEN TlonSession(TRUE, ChatPeerId(parts))
             ELSE TlonSession(FALSE, trimmed)
        ELSE TlonSession(FALSE, normalizeTlonShip(trimmed))

MaxTargetPieces == 4

TlonInit ==
    /\ input \in UNION {[1..n -> TlonPieces] : n \in 0..MaxTargetPieces}
    /\ output = Null
    /\ reloader = Null
    /\ PrepIdle
    /\ env = Null
    /\ RtIdle
    /\ ApIdle

ResolvesTlonOutboundSession ==
    /\ output = Null
    /\ output' = [done |-> TRUE, result |-> resolveTlonOutboundSession(input)]
    /\ UNCHANGED <<input, reloader, prepVars, rtVars, apVars>>

SpecTlon == TlonInit /\ [][ResolvesTlonOutboundSession]_vars

-----------------------------------------------------------------------------
(* The same plan applied twice in a row: apply.ts *)

\* The writes of a commit that all succeed, in their order.
RECURSIVE writeTextFilesAtomic(_, _)
writeTextFilesAtomic(d, writes) ==
    IF writes = <<>> THEN d
    ELSE writeTextFilesAtomic(writeTextFileAtomic(d, Head(writes).path, Head(writes).content),
                              Tail(writes))

\* runSecretsApply from its call to its return when no write fails.
\* Result: [threw, outcome, disk, written]; written: the files written, in
\* the order of the writes.
runSecretsApply(args, d) ==
    Only({IF r.threw
          THEN [threw |-> TRUE, outcome |-> Null, disk |-> d, written |-> <<>>]
          ELSE Only({
                CASE mode = "dry-run" ->
                        [threw |-> FALSE,
                         outcome |-> SecretsApplyResult("dry-run", r.projected.changedFiles,
                                                        r.projected),
                         disk |-> d, written |-> <<>>]
                  [] mode = "unchanged" ->
                        [threw |-> FALSE,
                         outcome |-> SecretsApplyResult("write", {}, r.projected),
                         disk |-> d, written |-> <<>>]
                  [] mode = "commit" ->
                        [threw |-> FALSE,
                         outcome |-> SecretsApplyResult("write", r.projected.changedFiles,
                                                        r.projected),
                         disk |-> writeTextFilesAtomic(
                                    writeConfigFile(d, r.projected.nextConfig),
                                    runSecretsApplyWrites(r.projected)),
                         written |-> <<ConfigFile>> \o
                                     [i \in 1..Len(runSecretsApplyWrites(r.projected)) |->
                                        runSecretsApplyWrites(r.projected)[i].path]] :
                mode \in {runSecretsApplyMode(args.write, r.projected.changedFiles)}}) :
        r \in {projectPlanState(args.plan, d, args.providerValues, args.throws)}})

\* An installation whose auth profile holds its ref already, and no config
\* file.
RefInStoreInstall ==
    [f \in FileNames |->
        IF f = AuthStoreFile
        THEN File(StoreWith("openai:default", ApiKeyProfile(Absent, RefV("K1"))), "utf8")
        ELSE NoFile]

\* A write-mode call of runSecretsApply is about to be made; the same plan
\* will be applied again after it.
ReapplyInit ==
    /\ PrepIdle
    /\ env = Null
    /\ RtIdle
    /\ CallIdle
    /\ disk \in ApplyDisks \cup {RefInStoreInstall}
    /\ diskBefore = disk
    /\ call \in [plan : {[targets |-> targets, options |-> Null,
                           providerUpserts |-> change.upserts,
                           providerDeletes |-> change.deletes] :
                             targets \in ApplyPlans, change \in ProviderChanges},
                 write : {TRUE},
                 providerValues : ApplyProviderValues,
                 throws : BOOLEAN]
    /\ run = [pc |-> "called", applies |-> 0, outcome |-> Null, written |-> <<>>,
              first |-> Null]

\* The first apply, from call to return.
AppliesPlan ==
    /\ run.pc = "called"
    /\ run.applies = 0
    /\ \E r \in {runSecretsApply(call, disk)} :
        /\ disk' = r.disk
        /\ run' = [pc |-> IF r.threw \/ ~r.outcome.changed THEN "done" ELSE "called",
                   applies |-> 1,
                   outcome |-> IF r.threw THEN Null ELSE r.outcome,
                   written |-> r.written,
                   first |-> IF r.threw THEN Null ELSE r.outcome]
    /\ UNCHANGED <<diskBefore, call, prepVars, rtVars, callVars>>

\* The same plan applied again right after a first apply that wrote: the
\* files and the providers are as the first apply left them.
AppliesPlanAgain ==
    /\ run.pc = "called"
    /\ run.applies = 1
    /\ \E r \in {runSecretsApply(call, disk)} :
        /\ disk' = r.disk
        /\ diskBefore' = disk
        /\ run' = [run EXCEPT !.pc = "done", !.applies = @ + 1,
                              !.outcome = IF r.threw THEN [threw |-> TRUE] ELSE r.outcome,
                              !.written = r.written]
    /\ UNCHANGED <<call, prepVars, rtVars, callVars>>

ReapplyNext == AppliesPlan \/ AppliesPlanAgain

SpecReapply == ReapplyInit /\ [][ReapplyNext]_vars

-----------------------------------------------------------------------------
(* Command secrets read from the active snapshot of the gateway: runtime.ts *)
(* and the secrets.resolve handler over it                                   *)

\* active: the active snapshot, Null when none is active.  The call of
\* collectCommandSecretAssignmentsFromSnapshot passes no inactiveRefPaths.
resolveCommandSecretsFromActiveRuntimeSnapshot(active, params) ==
    IF active = Null
    THEN [threw |-> TRUE, error |-> <<"Secrets runtime snapshot is not active.">>]
    ELSE IF Len(params.targetIds) = 0
    THEN [threw |-> FALSE, assignments |-> <<>>, diagnostics |-> <<>>]
    ELSE collectCommandSecretAssignmentsFromSnapshot(
            [sourceConfig |-> active.sourceConfig,
             resolvedConfig |-> active.config,
             commandName |-> params.commandName,
             targetIds |-> params.targetIds,
             inactiveRefPaths |-> {}])

\* The secrets.resolve handler with resolveSecrets bound to the read of the
\* active snapshot: the payload of a success carries the assignments and the
\* diagnostics.
secretsResolveFromActiveSnapshot(requestParams, active) ==
    Only({IF ~checked.ok THEN checked
          ELSE Only({IF resolved.threw
                     THEN secretsResolveHandler(requestParams, "throws")
                     ELSE [checked EXCEPT !.payload =
                              [ok |-> TRUE, assignments |-> resolved.assignments,
                               diagnostics |-> resolved.diagnostics]] :
                resolved \in {resolveCommandSecretsFromActiveRuntimeSnapshot(
                                  active, checked.resolveSecretsCalls[1])}}) :
        checked \in {secretsResolveHandler(requestParams, "result")}})

\* callGateway on the handler's response: it throws on an error response.
GatewayOfResponse(response) ==
    IF response.ok
    THEN [throws |-> FALSE,
          payload |-> [valid |-> TRUE, assignments |-> response.payload.assignments,
                       diagnostics |-> response.payload.diagnostics]]
    ELSE [throws |-> TRUE,
          payload |-> [valid |-> FALSE, assignments |-> <<>>, diagnostics |-> <<>>]]

\* The configs of the gateway: a provider that may be disabled, with a key
\* that may be a ref, and a talk key that may be a ref.
ActiveCommandConfigs ==
    {ConfigOf(f) : f \in
        [providerEnabled : {Absent, Bool(FALSE)},
         providerApiKey : {Absent, Str("plain"), RefV("K1")},
         talkApiKey : {Absent, RefV("K2")},
         gatewayAuthMode : {Absent},
         gatewayAuthPassword : {Absent},
         googleChatEnabled : {Absent},
         serviceAccount : {Absent},
         serviceAccountRef : {Absent}]}

\* A gateway about to start on a config, and the command that will ask it
\* for its secrets.
ActiveCommandInit ==
    /\ input \in [config : ActiveCommandConfigs,
                   providerValues : ApplyProviderValues,
                   commandName : {<<"memory", " ", "status">>},
                   targetIds : CommandTargetIds]
    /\ output = [pc |-> "start", active |-> Null, response |-> Null, command |-> Null]
    /\ reloader = Null
    /\ PrepIdle
    /\ env = Null
    /\ RtIdle
    /\ ApIdle

\* The gateway starts: it prepares a snapshot and activates it; no snapshot
\* is active when the preparation throws.
StartsGateway ==
    /\ output.pc = "start"
    /\ \E prepared \in {prepareSecretsRuntimeSnapshot(input.config,
                            [dir \in AgentDirs |-> EmptyStore],
                            input.providerValues, FALSE)} :
        output' = [output EXCEPT !.pc = "serving",
                                 !.active = IF prepared.threw THEN Null
                                            ELSE prepared.snapshot]
    /\ UNCHANGED <<input, reloader, prepVars, rtVars, apVars>>

\* The gateway answers the secrets.resolve request of the command.
AnswersSecretsResolve ==
    /\ output.pc = "serving"
    /\ output' = [output EXCEPT
                    !.pc = "answered",
                    !.response = secretsResolveFromActiveSnapshot(
                                    [commandName |-> input.commandName,
                                     targetIds |-> input.targetIds,
                                     additionalProperties |-> FALSE],
                                    output.active)]
    /\ UNCHANGED <<input, reloader, prepVars, rtVars, apVars>>

\* The command, on the same config, takes the answer of the gateway.
CommandTakesAnswer ==
    /\ output.pc = "answered"
    /\ output' = [output EXCEPT
                    !.pc = "done",
                    !.command = resolveCommandSecretRefsViaGateway(
                                    [config |-> input.config,
                                     commandName |-> "memory status",
                                     targetIds |-> input.targetIds],
                                    GatewayOfResponse(output.response))]
    /\ UNCHANGED <<input, reloader, prepVars, rtVars, apVars>>

ActiveCommandNext == StartsGateway \/ AnswersSecretsResolve \/ CommandTakesAnswer

SpecActiveCommand == ActiveCommandInit /\ [][ActiveCommandNext]_vars

-----------------------------------------------------------------------------
(* The unresolved-ref findings of the audit: collectUnresolvedRefFindings.  *)
(* The resolver is what resolveSecretRefValues does for the batch of a      *)
(* provider (it returns values, or raises an error that is provider-scoped  *)
(* or not) and what resolveSecretRefValue does for one ref (it returns a    *)
(* value or raises).                                                        *)

FileRef(id) == [t |-> "ref", source |-> "file", provider |-> "vault", id |-> id]

\* `${assignment.ref.source}:${assignment.ref.provider}`
providerKeyOf(ref) == <<ref.source, ref.provider>>

Raises == [t |-> "raises"]

isProviderScopedSecretResolutionErrorNever(err) == FALSE

\* provider && isProviderScopedSecretResolutionError(err): every provider of
\* the model has a name.
isProviderScopedSecretResolutionError(err) == err.kind = "providerScoped"

\* The finding of one assignment, Null when it has none.
unresolvedRefFinding(assignment, resolvedByRefKey, errorsByRefKey) ==
    LET key == secretRefKey(assignment.ref)
        finding(detail) == [code |-> "REF_UNRESOLVED", severity |-> "error",
                            file |-> assignment.file, jsonPath |-> assignment.path,
                            detail |-> detail, provider |-> assignment.provider]
    IN  IF key \in DOMAIN errorsByRefKey THEN finding(errorsByRefKey[key].kind)
        ELSE IF key \notin DOMAIN resolvedByRefKey
        THEN finding("resolved value is missing")
        ELSE IF ~isExpectedResolvedSecretValue(resolvedByRefKey[key], assignment.expected)
        THEN finding("resolved value is not a non-empty string")
        ELSE Null

\* Result: [findings, perRefAttempts, batchCalls]: the findings added, the
\* refs resolved one by one, and the provider keys resolved as a batch.
collectUnresolvedRefFindings(refAssignments, resolver) ==
    LET refs == {refAssignments[i].ref : i \in DOMAIN refAssignments}
        providerKeys == {providerKeyOf(r) : r \in refs}
        outcome(ref) == resolver.batch[providerKeyOf(ref)]
        inBatchThatReturned == {r \in refs : outcome(r).kind = "returns"}
        inBatchScoped == {r \in refs : /\ outcome(r).kind # "returns"
                                       /\ isProviderScopedSecretResolutionError(outcome(r))}
        fallback == refs \ (inBatchThatReturned \cup inBatchScoped)
        errored == inBatchScoped
                    \cup {r \in fallback : resolver.single[secretRefKey(r)] = Raises}
        resolved == {r \in inBatchThatReturned :
                        resolver.batchValues[secretRefKey(r)] # Absent}
                    \cup {r \in fallback : resolver.single[secretRefKey(r)] # Raises}
        errorsByRefKey == [k \in {secretRefKey(r) : r \in errored} |->
                             LET r == CHOOSE x \in errored : secretRefKey(x) = k
                             IN  IF r \in inBatchScoped THEN outcome(r)
                                 ELSE [kind |-> "single"]]
        resolvedByRefKey == [k \in {secretRefKey(r) : r \in resolved} |->
                               LET r == CHOOSE x \in resolved : secretRefKey(x) = k
                               IN  IF r \in fallback THEN resolver.single[k]
                                   ELSE resolver.batchValues[k]]
    IN  [findings |-> SelectSeq(
                        [i \in DOMAIN refAssignments |->
                            unresolvedRefFinding(refAssignments[i], resolvedByRefKey,
                                                 errorsByRefKey)],
                        LAMBDA finding : finding # Null),
         perRefAttempts |-> {secretRefKey(r) : r \in fallback},
         batchCalls |-> providerKeys]

\* The ref assignments an audit can collect: two refs of the env provider,
\* the first at two paths, and one ref of a file provider.
AuditAssignments ==
    <<[ref |-> RefV("K1"), file |-> ConfigFile, path |-> TalkApiKeyPath,
       expected |-> "string", provider |-> ""],
      [ref |-> RefV("K1"), file |-> ConfigFile, path |-> ProviderApiKeyPath("openai"),
       expected |-> "string", provider |-> "openai"],
      [ref |-> RefV("K2"), file |-> ConfigFile, path |-> GatewayAuthPasswordPath,
       expected |-> "string", provider |-> ""],
      [ref |-> FileRef("K3"), file |-> ConfigFile, path |-> GoogleChatServiceAccountPath,
       expected |-> "string-or-object", provider |-> ""]>>

BatchOutcomes == {[kind |-> "returns"], [kind |-> "providerScoped"], [kind |-> "other"]}

AuditResolvers ==
    [batch : [{providerKeyOf(RefV("K1")), providerKeyOf(FileRef("K3"))} -> BatchOutcomes],
     batchValues : {[k \in {secretRefKey(RefV("K1")), secretRefKey(RefV("K2")),
                            secretRefKey(FileRef("K3"))} |->
                        IF k[3] = "K1" THEN v[1] ELSE IF k[3] = "K2" THEN v[2] ELSE v[3]] :
                     v \in {Str("sk-live"), Absent, Obj} \X {Str("sk-live"), Absent}
                            \X {Obj, Absent}},
     single : {[k \in {secretRefKey(RefV("K1")), secretRefKey(RefV("K2")),
                       secretRefKey(FileRef("K3"))} |->
                    IF k[3] = "K1" THEN v[1] ELSE IF k[3] = "K2" THEN v[2] ELSE v[3]] :
                 v \in {Str("sk-live"), Raises, Obj} \X {Str("sk-live"), Raises}
                        \X {Obj, Raises}}]

AuditRefsInit ==
    /\ input \in {[refAssignments |-> SelectSeq(AuditAssignments,
                                                LAMBDA a : a.path \in paths),
                    resolver |-> resolver] :
                    paths \in SUBSET {AuditAssignments[i].path : i \in 1..4},
                    resolver \in AuditResolvers}
    /\ output = Null
    /\ reloader = Null
    /\ PrepIdle
    /\ env = Null
    /\ RtIdle
    /\ ApIdle

\* The audit resolves the refs it collected and adds its findings.
CollectsUnresolvedRefFindings ==
    /\ input # Null
    /\ output = Null
    /\ output' = collectUnresolvedRefFindings(input.refAssignments, input.resolver)
    /\ UNCHANGED <<input, reloader, prepVars, rtVars, apVars>>

SpecAuditRefs == AuditRefsInit /\ [][CollectsUnresolvedRefFindings]_vars

-----------------------------------------------------------------------------
(* Reloads of the gateway while the secrets of the providers change: the    *)
(* value the active snapshot held before a reload is kept beside the run.   *)

MaxReloads == 4

FreshReloadInit ==
    /\ PrepIdle
    /\ env \in RtEnvs
    /\ RtIdle
    /\ ApIdle
    /\ reloader = Null
    /\ input = Null
    /\ output = [reloads |-> 0, prior |-> Null]

\* The gateway starts or reloads: reloadSecrets prepares a snapshot from the
\* environment as it is now and activates it when the preparation returned.
ReloadsSecrets ==
    /\ output.reloads < MaxReloads
    /\ \E throws \in BOOLEAN :
        \E result \in {reloadSecrets(CurrentModules, env, throws, "none")} :
            /\ Continue(result.modules, held)
            /\ lastOp' = IF result.threw
                         THEN [op |-> "secrets.reload", ok |-> FALSE,
                               error |-> "UNAVAILABLE"]
                         ELSE [op |-> "secrets.reload", ok |-> TRUE,
                               warningCount |-> result.warningCount]
    /\ output' = [reloads |-> output.reloads + 1,
                  prior |-> IF activeSnapshot = Null THEN Null
                            ELSE heap[activeSnapshot.config][TalkApiKeyPath]]
    /\ UNCHANGED <<env, prepVars, apVars, reloader, input>>

FreshReloadNext == EnvChanges \/ ReloadsSecrets

SpecFreshReload == FreshReloadInit /\ [][FreshReloadNext]_vars

-----------------------------------------------------------------------------
(* The expansion of path tokens over a tree: target-registry-pattern.ts.  A *)
(* node of a tree is a string, a mapping [t |-> "obj", entries] from keys   *)
(* to nodes, or an array [t |-> "arr", items]; a key is a segment, the      *)
(* empty key included.                                                      *)

Undefined == [t |-> "undefined"]

\* String(index) for the indexes of the model.
IndexString(index) == <<<<"0">>, <<"1">>, <<"2">>>>[index + 1]

\* walk(node, tokenIndex, segments, captures), with the tokens from
\* tokenIndex on; the result is the set of the matches pushed.
RECURSIVE expandPathTokensWalk(_, _, _, _)
expandPathTokensWalk(node, tokens, segments, captures) ==
    IF tokens = <<>>
    THEN {[segments |-> segments, captures |-> captures, value |-> node]}
    ELSE LET token == Head(tokens)
             isLeaf == Len(tokens) = 1
         IN  IF node.t # "obj" THEN {}
             ELSE IF token.kind = "literal"
             THEN IF isLeaf
                  THEN {[segments |-> Append(segments, token.value),
                         captures |-> captures,
                         value |-> IF token.value \in DOMAIN node.entries
                                   THEN node.entries[token.value] ELSE Undefined]}
                  ELSE IF token.value \notin DOMAIN node.entries THEN {}
                  ELSE expandPathTokensWalk(node.entries[token.value], Tail(tokens),
                                            Append(segments, token.value), captures)
             ELSE IF token.kind = "wildcard"
             THEN UNION {IF isLeaf
                         THEN {[segments |-> Append(segments, key),
                                captures |-> Append(captures, key),
                                value |-> node.entries[key]]}
                         ELSE expandPathTokensWalk(node.entries[key], Tail(tokens),
                                                   Append(segments, key),
                                                   Append(captures, key)) :
                            key \in DOMAIN node.entries}
             ELSE IF token.field \notin DOMAIN node.entries THEN {}
             ELSE IF node.entries[token.field].t # "arr" THEN {}
             ELSE UNION {IF isLeaf
                         THEN {[segments |-> segments \o <<token.field, IndexString(i - 1)>>,
                                captures |-> Append(captures, IndexString(i - 1)),
                                value |-> node.entries[token.field].items[i]]}
                         ELSE expandPathTokensWalk(
                                node.entries[token.field].items[i], Tail(tokens),
                                segments \o <<token.field, IndexString(i - 1)>>,
                                Append(captures, IndexString(i - 1))) :
                            i \in 1..Len(node.entries[token.field].items)}

expandPathTokens(root, tokens) == expandPathTokensWalk(root, tokens, <<>>, <<>>)

MaxItems == 2
MaxTokens == 3

TreeKeys == {<<"a">>, <<>>}

\* The nodes of the heights 0, 1 and 2.
TreeLeaves == {Str("x")}

NodesOver(children) ==
    children
    \cup {[t |-> "obj", entries |-> entries] :
            entries \in UNION {[keys -> children] : keys \in SUBSET TreeKeys}}
    \cup {[t |-> "arr", items |-> items] :
            items \in UNION {[1..n -> children] : n \in 0..MaxItems}}

\* The trees: the nodes of height 2 at most, and each of them under the key
\* "a" of a mapping.
ExpandTrees ==
    NodesOver(NodesOver(TreeLeaves))
    \cup {[t |-> "obj", entries |-> [key \in {<<"a">>} |-> node]] :
            node \in NodesOver(NodesOver(TreeLeaves))}

\* The tokens parsePathPattern makes of "a", "*" and "a[]".
ExpandTokens ==
    {[kind |-> "literal", value |-> <<"a">>], [kind |-> "wildcard", value |-> <<>>],
     [kind |-> "array", field |-> <<"a">>]}

ExpandInit ==
    /\ input \in [tree : ExpandTrees,
                   tokens : UNION {[1..n -> ExpandTokens] : n \in 1..MaxTokens}]
    /\ output = Null
    /\ reloader = Null
    /\ PrepIdle
    /\ env = Null
    /\ RtIdle
    /\ ApIdle

\* The tokens of an entry are expanded over a tree.
ExpandsPathTokens ==
    /\ input # Null
    /\ output = Null
    /\ output' = [matches |-> expandPathTokens(input.tree, input.tokens)]
    /\ UNCHANGED <<input, reloader, prepVars, rtVars, apVars>>

SpecExpand == ExpandInit /\ [][ExpandsPathTokens]_vars

-----------------------------------------------------------------------------
(* setPathExistingStrict over a tree of mappings and arrays: path-utils.ts  *)

\* Number.parseInt(segment, 10) of a segment of digits.
RECURSIVE parseIntOfDigits(_, _)
parseIntOfDigits(segment, sofar) ==
    IF segment = <<>> THEN sofar
    ELSE parseIntOfDigits(Tail(segment),
            10 * sofar + (CHOOSE n \in 0..9 :
                            <<"0", "1", "2", "3", "4", "5", "6", "7", "8", "9">>[n + 1]
                                = Head(segment)))

PathThrew(cursor) == [threw |-> TRUE, changed |-> FALSE, root |-> cursor]

\* A walk that, at the leaf, sets a key the mapping does not have.
RECURSIVE setPathExistingStrictFromCreatingLeaf(_, _, _)
setPathExistingStrictFromCreatingLeaf(cursor, segments, value) ==
    LET segment == Head(segments)
        isLast == Len(segments) = 1
        arrayIndex == parseIntOfDigits(segment, 0)
    IN  IF cursor.t = "arr"
        THEN IF ~isArrayIndex(segment) THEN PathThrew(cursor)
             ELSE IF arrayIndex >= Len(cursor.items) THEN PathThrew(cursor)
             ELSE IF isLast
             THEN [threw |-> FALSE, changed |-> cursor.items[arrayIndex + 1] # value,
                   root |-> [cursor EXCEPT !.items[arrayIndex + 1] = value]]
             ELSE Only({[threw |-> below.threw, changed |-> below.changed,
                         root |-> IF below.threw THEN cursor
                                  ELSE [cursor EXCEPT !.items[arrayIndex + 1] = below.root]] :
                    below \in {setPathExistingStrictFromCreatingLeaf(
                                  cursor.items[arrayIndex + 1], Tail(segments), value)}})
        ELSE IF cursor.t # "obj" THEN PathThrew(cursor)
        ELSE IF isLast
        THEN [threw |-> FALSE, changed |-> TRUE,
              root |-> [cursor EXCEPT !.entries =
                            [key \in DOMAIN cursor.entries \cup {segment} |->
                                IF key = segment THEN value ELSE cursor.entries[key]]]]
        ELSE IF segment \notin DOMAIN cursor.entries THEN PathThrew(cursor)
        ELSE Only({[threw |-> below.threw, changed |-> below.changed,
                    root |-> IF below.threw THEN cursor
                             ELSE [cursor EXCEPT !.entries[segment] = below.root]] :
                below \in {setPathExistingStrictFromCreatingLeaf(
                              cursor.entries[segment], Tail(segments), value)}})

\* The loop over the segments and the write of the leaf, from the node the
\* cursor is at; segments is not empty.  Result: [threw, changed, root],
\* root being the node after the call.
RECURSIVE setPathExistingStrictFrom(_, _, _)
setPathExistingStrictFrom(cursor, segments, value) ==
    LET segment == Head(segments)
        isLast == Len(segments) = 1
        arrayIndex == parseIntOfDigits(segment, 0)
    IN  IF cursor.t = "arr"
        THEN IF ~isArrayIndex(segment) THEN PathThrew(cursor)
             ELSE IF arrayIndex >= Len(cursor.items) THEN PathThrew(cursor)
             ELSE IF isLast
             THEN [threw |-> FALSE, changed |-> cursor.items[arrayIndex + 1] # value,
                   root |-> [cursor EXCEPT !.items[arrayIndex + 1] = value]]
             ELSE Only({[threw |-> below.threw, changed |-> below.changed,
                         root |-> IF below.threw THEN cursor
                                  ELSE [cursor EXCEPT !.items[arrayIndex + 1] = below.root]] :
                    below \in {setPathExistingStrictFrom(
                                  cursor.items[arrayIndex + 1], Tail(segments), value)}})
        ELSE IF cursor.t # "obj" THEN PathThrew(cursor)
        ELSE IF segment \notin DOMAIN cursor.entries THEN PathThrew(cursor)
        ELSE IF isLast
        THEN [threw |-> FALSE, changed |-> cursor.entries[segment] # value,
              root |-> [cursor EXCEPT !.entries[segment] = value]]
        ELSE Only({[threw |-> below.threw, changed |-> below.changed,
                    root |-> IF below.threw THEN cursor
                             ELSE [cursor EXCEPT !.entries[segment] = below.root]] :
                below \in {setPathExistingStrictFrom(
                              cursor.entries[segment], Tail(segments), value)}})

\* setPathExistingStrict on a tree.
setPathExistingStrictOfTree(root, segments, value) ==
    IF Len(segments) = 0 THEN PathThrew(root)
    ELSE setPathExistingStrictFrom(root, segments, value)

MaxSegments == 3

PathSetSegments == {<<"a">>, <<"b">>, <<>>, <<"0">>}

PathSetInit ==
    /\ input \in [tree : ExpandTrees,
                   segments : UNION {[1..n -> PathSetSegments] : n \in 0..MaxSegments},
                   value : {Str("x"), Str("y")}]
    /\ output = Null
    /\ reloader = Null
    /\ PrepIdle
    /\ env = Null
    /\ RtIdle
    /\ ApIdle

\* A value is written at a path of a tree that must exist.
SetsExistingPath ==
    /\ input # Null
    /\ output = Null
    /\ output' = setPathExistingStrictOfTree(input.tree, input.segments, input.value)
    /\ UNCHANGED <<input, reloader, prepVars, rtVars, apVars>>

SpecPathSet == PathSetInit /\ [][SetsExistingPath]_vars

-----------------------------------------------------------------------------
(* Claims about runSecretsApply *)

\* The environment a resolution over the files before the apply sees.
EnvBeforeApply ==
    [config |-> IF diskBefore[ConfigFile] = NoFile THEN EmptyConfig
                ELSE diskBefore[ConfigFile].doc,
     stores |-> [d \in AgentDirs |->
                    IF diskBefore[AuthStoreFile] = NoFile THEN EmptyStore
                    ELSE diskBefore[AuthStoreFile].doc],
     providerValues |-> call.providerValues]

\* The environment a resolution over the projected config and stores sees.
EnvProjected ==
    [config |-> run.projected.nextConfig,
     stores |-> [d \in AgentDirs |->
                    IF AuthStoreFile \in DOMAIN run.projected.authStoreByPath
                    THEN run.projected.authStoreByPath[AuthStoreFile]
                    ELSE EnvBeforeApply.stores[d]],
     providerValues |-> call.providerValues]

\* The ref of some plan target has no value of the shape expected of it.
SomeTargetRefUnusable ==
    \E i \in DOMAIN call.plan.targets :
        ~HasStatedShape(call.providerValues[call.plan.targets[i].ref.id], "string")

\* Some target of the plan breaks one of the validation rules.
SomeTargetInvalid ==
    \E i \in DOMAIN call.plan.targets : call.plan.targets[i] \in InvalidTargets

\* C1: once a write-mode runSecretsApply has thrown because one write of its
\* commit phase failed, every file the apply targeted is byte for byte what it
\* was before the apply, and a targeted file that did not exist does not exist
\* (no restore having failed in its turn).
C1_FailedCommitLeavesTargetedFilesAsBefore ==
    (/\ run.pc = "done" /\ run.outcome.threw /\ run.outcome.phase = "commit"
     /\ run.outcome.restoreFailures = {})
        => \A f \in run.outcome.targeted : disk[f] = diskBefore[f]

\* C3: when some target of the plan fails target validation, runSecretsApply
\* fails and no file is written, wherever the invalid target stands in the plan.
C3_InvalidTargetFailsWithoutWrite ==
    SomeTargetInvalid
        => /\ disk = diskBefore
           /\ run.pc # "commit"
           /\ run.pc = "done" => run.outcome.threw

C3_Witness ==
    /\ call.plan.targets = <<ProviderKeyTarget, ProviderMismatchTarget>>
    /\ call.write
    /\ call.providerValues["K1"] = Str("sk-live")
    /\ diskBefore = PlainInstall("utf8")
    /\ run.pc = "done"
    /\ run.outcome.threw
    /\ disk = diskBefore

\* C4: in write mode no file is written until preflight has succeeded: every
\* plan target's ref has a value of the expected shape and every ref on an
\* active surface of the projected config and stores is usable; and when
\* preflight fails, runSecretsApply throws and every file is unchanged.
C4_NoWriteBeforePreflightSucceeded ==
    [][/\ disk' # disk
            => /\ call.write
               /\ run.pc = "commit"
               /\ ~SomeTargetRefUnusable
               /\ ~SomeActiveRefUnusable(EnvProjected)
       /\ (run.pc = "called" /\ (SomeTargetRefUnusable
                                    \/ SomeActiveRefUnusable(EnvBeforeApply)))
            => /\ run'.pc = "done"
               /\ run'.outcome.threw
               /\ disk' = disk]_vars

C4_Witness ==
    /\ call.write
    /\ call.plan.targets = <<ProfileKeyTarget>>
    /\ run.pc = "commit"
    /\ run.next = 2
    /\ disk[AuthStoreFile] # diskBefore[AuthStoreFile]
    /\ ~SomeTargetRefUnusable
    /\ run.projected.authStoreByPath[AuthStoreFile].profiles["openai:default"].keyRef
            = RefV("K1")

\* C5: a dry run (write not set) creates, modifies and deletes no file,
\* whatever the plan and the files; it returns the list of the files that
\* would change and the warnings.
C5_DryRunLeavesFilesAlone ==
    (call # Null /\ ~call.write)
        => /\ disk = diskBefore
           /\ run.pc # "commit"
           /\ (run.pc = "done" /\ ~run.outcome.threw)
                => /\ run.outcome.mode = "dry-run"
                   /\ run.outcome.changedFiles \subseteq FileNames
                   /\ run.outcome.changed = (run.outcome.changedFiles # {})
                   /\ run.outcome.warningCount = Len(run.outcome.warnings)

C5_Witness ==
    /\ ~call.write
    /\ call.plan.targets = <<ProviderKeyTarget>>
    /\ diskBefore = PlainInstall("utf8")
    /\ run.pc = "done"
    /\ ~run.outcome.threw
    /\ run.outcome.mode = "dry-run"
    /\ run.outcome.changedFiles = FileNames
    /\ disk = diskBefore

\* C16: when a write of the commit fails, a restore is attempted for every
\* snapshotted file, whichever restores fail, and the error thrown has the
\* error of the failed write as its cause.
C16_RestoreIsBestEffortAndKeepsCause ==
    [][(run.pc = "commit" /\ run'.pc = "done" /\ run'.outcome.threw) =>
          /\ run'.outcome.restoreAttempts = DOMAIN run.snapshots
          /\ run'.outcome.error.cause =
                FileError("write", IF run.next = 0 THEN ConfigFile
                                   ELSE run.writes[run.next].path)
          /\ \A f \in DOMAIN run.snapshots \ run'.outcome.restoreFailures :
                disk'[f] = restoreFileSnapshot(disk, f, run.snapshots[f])[f]]_vars

\* C16 witness: the write of the auth store failed after the config file
\* was replaced, the first restore (of the config file) failed, and the
\* later files were restored all the same.
C16_Witness ==
    /\ run.pc = "done" /\ run.outcome.threw /\ run.outcome.phase = "commit"
    /\ run.outcome.restoreFailures = {ConfigFile}
    /\ run.outcome.restoreAttempts =
          {ConfigFile, AuthStoreFile, AuthJsonFile, EnvFile}
    /\ run.outcome.error.cause = FileError("write", AuthStoreFile)
    /\ disk[ConfigFile] # diskBefore[ConfigFile]
    /\ disk[AuthStoreFile] = diskBefore[AuthStoreFile]

\* The projection of the plan returned: the commit is under way, or the call
\* returned a result.
ProjectionReturned ==
    \/ run.pc = "commit"
    \/ run.pc = "done" /\ ~run.outcome.threw

ProjectedChangedFiles ==
    IF run.pc = "commit" THEN run.projected.changedFiles
    ELSE run.outcome.changedFiles

\* The file a plan target addresses: the agent's auth-profile store for an
\* auth-profile target, the main config file for any other.
FileOfTarget(target) ==
    IF target.type = "auth-profiles.api_key.key" THEN AuthStoreFile ELSE ConfigFile

\* The files the plan addresses through its targets, providerUpserts and
\* providerDeletes.
FilesOfPlan(plan) ==
    {FileOfTarget(plan.targets[i]) : i \in DOMAIN plan.targets}
        \cup (IF DOMAIN plan.providerUpserts # {} \/ plan.providerDeletes # <<>>
              THEN {ConfigFile} ELSE {})

ConfigBeforeApply ==
    IF diskBefore[ConfigFile] = NoFile THEN EmptyConfig ELSE diskBefore[ConfigFile].doc

ProvidersBeforeApply ==
    IF ConfigBeforeApply[SecretsProvidersPath] = Absent THEN <<>>
    ELSE ConfigBeforeApply[SecretsProvidersPath].entries

\* The ref of the target is not what its file holds at the target's path.
TargetAltersItsFile(target) ==
    CASE target = ProfileKeyTarget ->
            \/ diskBefore[AuthStoreFile] = NoFile
            \/ "openai:default" \notin DOMAIN diskBefore[AuthStoreFile].doc.profiles
            \/ diskBefore[AuthStoreFile].doc.profiles["openai:default"].key # target.ref
      [] target = TalkKeyTarget -> ConfigBeforeApply[TalkApiKeyPath] # target.ref
      [] target = ProviderKeyTarget ->
            ConfigBeforeApply[ProviderApiKeyPath("openai")] # target.ref
      [] OTHER -> FALSE

\* The files the plan addresses and alters: through a target whose ref is
\* not in place, an upsert that differs from the provider configured, or the
\* deletion of a provider that is configured.
FilesAlteredByPlan(plan) ==
    {FileOfTarget(plan.targets[i]) :
        i \in {k \in DOMAIN plan.targets : TargetAltersItsFile(plan.targets[k])}}
        \cup (IF \/ \E a \in DOMAIN plan.providerUpserts :
                      \/ a \notin DOMAIN ProvidersBeforeApply
                      \/ ProvidersBeforeApply[a] # plan.providerUpserts[a]
                 \/ \E i \in DOMAIN plan.providerDeletes :
                      plan.providerDeletes[i] \in DOMAIN ProvidersBeforeApply
              THEN {ConfigFile} ELSE {})

C17_NothingToChange ==
    /\ run.pc = "done" /\ ~run.outcome.threw
    /\ diskBefore = AppliedInstall
    /\ call.plan.targets = <<TalkKeyTarget>>
    /\ DOMAIN call.plan.providerUpserts = {"vault"}
    /\ run.outcome.changedFiles = {}

-----------------------------------------------------------------------------
(* Claims about plan validation *)

AlphaNumerics == LowerCaseLetters \cup UpperCaseLetters \cup Digits

\* ^[a-z][a-z0-9_-]{0,63}$
MatchesProviderRule(provider) ==
    /\ Len(provider) >= 1 /\ Len(provider) <= 64
    /\ provider[1] \in LowerCaseLetters
    /\ \A i \in 2..Len(provider) :
            provider[i] \in LowerCaseLetters \cup Digits \cup {"_", "-"}

\* env: ^[A-Z][A-Z0-9_]{0,127}$; file: an absolute JSON pointer, every ~
\* followed by 0 or 1; exec: ^[A-Za-z0-9][A-Za-z0-9._:/-]{0,255}$
MatchesIdRule(source, id) ==
    CASE source = "env" ->
            /\ Len(id) >= 1 /\ Len(id) <= 128
            /\ id[1] \in UpperCaseLetters
            /\ \A i \in 2..Len(id) : id[i] \in UpperCaseLetters \cup Digits \cup {"_"}
      [] source = "file" ->
            /\ Len(id) >= 1
            /\ id[1] = "/"
            /\ \A i \in 1..Len(id) :
                    id[i] = "~" => (i < Len(id) /\ id[i + 1] \in {"0", "1"})
      [] source = "exec" ->
            /\ Len(id) >= 1 /\ Len(id) <= 256
            /\ id[1] \in AlphaNumerics
            /\ \A i \in 2..Len(id) :
                    id[i] \in AlphaNumerics \cup {".", "_", ":", "/", "-"}
      [] OTHER -> FALSE

RefViolatesRules(ref) ==
    /\ ref # Null
    /\ \/ ~MatchesProviderRule(ref.provider)
       \/ ~MatchesIdRule(ref.source, ref.id)

\* C18: isSecretsApplyPlan rejects every plan with a target whose ref has a
\* provider that does not match the alias pattern or an id that has not the
\* shape its source requires.
C18_PlanWithBadRefIsRejected ==
    (output # Null /\
        \E i \in DOMAIN input.plan.targets :
            RefViolatesRules(input.plan.targets[i].ref))
    => ~output.accepted

\* The refs that break a rule and are not blank are the ones let through.
C18_BlankRefIsRejected ==
    (output # Null /\
        \E i \in DOMAIN input.plan.targets :
            LET ref == input.plan.targets[i].ref IN
            \/ ref = Null
            \/ ref # Null /\ ref.source \notin {"env", "file", "exec"}
            \/ ref # Null /\ (ref.provider = <<" ">> \/ ref.id = <<" ">>))
    => ~output.accepted

-----------------------------------------------------------------------------
(* Claims about the secrets.resolve handler *)

RegistryIds == {SECRET_TARGET_REGISTRY[i].id : i \in 1..Len(SECRET_TARGET_REGISTRY)}

\* The ids a request names: its targetIds without the surrounding blanks,
\* the entries that are nothing but blanks left out.
RequestedIds(requestParams) ==
    {StringTrim(requestParams.targetIds[i]) : i \in 1..Len(requestParams.targetIds)}
        \ {<<>>}

\* C19: a secrets.resolve request that names an id that is not in the id
\* index of the registry is answered INVALID_REQUEST, and the snapshot
\* resolver is not invoked.
C19_UnknownTargetIdIsInvalidRequest ==
    (output # Null /\ ~(RequestedIds(input.requestParams) \subseteq RegistryIds))
    => /\ ~output.ok
       /\ output.error.code = "INVALID_REQUEST"
       /\ output.resolveSecretsCalls = <<>>

\* C19 witness: a well-formed request for a known id and an unknown one,
\* the resolver being able to answer, is refused for the unknown id.
C19_Witness ==
    /\ output # Null
    /\ input.requestParams.commandName = <<"memory", " ", "status">>
    /\ ~input.requestParams.additionalProperties
    /\ input.requestParams.targetIds = <<TalkTargetId, <<"unknown", ".", "target">>>>
    /\ input.resolver = "result"
    /\ output.error = errorShape("INVALID_REQUEST",
            <<"invalid secrets.resolve params: unknown target id ",
              <<"unknown", ".", "target">>>>)
    /\ output.resolveSecretsCalls = <<>>

\* A request whose ids are all known reaches the resolver.
C19_KnownIdsReachResolver ==
    /\ output # Null
    /\ output.ok
    /\ input.requestParams.targetIds = <<<<" ">> \o TalkTargetId \o <<" ">>, <<" ">>>>
    /\ output.resolveSecretsCalls =
          <<[commandName |-> <<"memory", " ", "status">>, targetIds |-> <<TalkTargetId>>]>>

-----------------------------------------------------------------------------
(* Claims about command secrets *)

\* The paths the command asks for.
RequestedPaths ==
    {path \in {TalkApiKeyPath, ProviderApiKeyPath("openai")} :
        \E i \in DOMAIN input.targetIds :
            \/ path = TalkApiKeyPath /\ input.targetIds[i] = TalkTargetId
            \/ path # TalkApiKeyPath /\ input.targetIds[i] = ProviderTargetId}

\* The requested paths that hold a ref in the source config and no value of
\* the expected shape in the resolved config: both targets expect a string,
\* and a string of white space only is not one.
UnresolvedPaths ==
    {path \in RequestedPaths :
        /\ input.sourceConfig[path].t = "ref"
        /\ ~(/\ input.resolvedConfig[path].t = "str"
             /\ input.resolvedConfig[path].s \notin {"", " "})}

DotPathOf(path) == toDotPath(SegmentsOf(path))

FatalPaths == {path \in UnresolvedPaths : DotPathOf(path) \notin input.inactiveRefPaths}

\* C20: a requested target whose ref has no value of the expected shape in
\* the resolved config makes the call throw an error that names the command
\* and the path, unless its path is in the inactive set: then, the call
\* returning, it has a diagnostic and no assignment.
C20_UnresolvedRefThrowsUnlessInactive ==
    output # Null =>
        /\ FatalPaths # {} =>
                /\ output.threw
                /\ \E path \in FatalPaths :
                      /\ output.error[1] = input.commandName
                      /\ output.error[3] = DotPathOf(path)
        /\ FatalPaths = {} =>
                /\ ~output.threw
                /\ \A path \in UnresolvedPaths :
                      /\ \E i \in DOMAIN output.diagnostics :
                            output.diagnostics[i][1] = DotPathOf(path)
                      /\ \A i \in DOMAIN output.assignments :
                            output.assignments[i].path # DotPathOf(path)

\* C20 witness: of two requested targets, the first is unresolved on an
\* inactive surface and is passed over with a diagnostic, the second is
\* resolved and assigned.
C20_Witness ==
    /\ output # Null /\ ~output.threw
    /\ input.targetIds = <<TalkTargetId, ProviderTargetId>>
    /\ input.sourceConfig[TalkApiKeyPath] = RefV("K1")
    /\ input.resolvedConfig[TalkApiKeyPath] = RefV("K1")
    /\ input.inactiveRefPaths = {DotPathOf(TalkApiKeyPath)}
    /\ Len(output.diagnostics) = 1
    /\ Len(output.assignments) = 1
    /\ output.assignments[1].value = Str("sk-live")

\* The call threw for an unresolved target outside the inactive set.
C20_Thrown ==
    /\ output # Null /\ output.threw
    /\ input.targetIds = <<TalkTargetId>>
    /\ input.inactiveRefPaths = {}
    /\ output.error = <<"memory search", ": ", DotPathOf(TalkApiKeyPath),
                         " is unresolved in the active runtime snapshot.">>

-----------------------------------------------------------------------------
(* Claims about command secrets fetched from the gateway *)

\* The requested paths that hold a ref in the caller's local config.
RequestedRefPaths == {path \in RequestedPaths : input.config[path].t = "ref"}

\* A diagnostic of the gateway's answer marks the path as inactive.
MarkedInactiveByGateway(path) ==
    \E i \in DOMAIN input.gateway.payload.diagnostics :
        /\ input.gateway.payload.diagnostics[i][1] = DotPathOf(path)
        /\ input.gateway.payload.diagnostics[i][2] = InactiveSurfaceRest

\* C21: when resolveCommandSecretRefsViaGateway returns, every requested
\* target that is a ref in the local config holds a string that is not blank
\* in the returned config, or a diagnostic of the gateway marked it
\* inactive; in every other case the helper throws.
C21_ReturnedConfigResolvedOrInactive ==
    (output # Null /\ ~output.threw) =>
        \A path \in RequestedRefPaths :
            \/ /\ output.resolvedConfig[path].t = "str"
               /\ output.resolvedConfig[path].s \notin {"", " "}
            \/ MarkedInactiveByGateway(path)

\* C21 witness: the helper returned after a gateway call, one requested ref
\* resolved by an assignment, the other left as authored and marked inactive.
C21_Witness ==
    /\ output # Null /\ ~output.threw /\ output.calls = 1
    /\ RequestedRefPaths = {TalkApiKeyPath, ProviderApiKeyPath("openai")}
    /\ output.resolvedConfig[TalkApiKeyPath] = Str("sk-live")
    /\ output.resolvedConfig[ProviderApiKeyPath("openai")] = RefV("K2")
    /\ MarkedInactiveByGateway(ProviderApiKeyPath("openai"))

\* The helper threw because a requested ref was left unresolved and no
\* diagnostic marked it inactive.
C21_Raised ==
    /\ output # Null /\ output.threw /\ output.calls = 1
    /\ ~input.gateway.throws /\ input.gateway.payload.valid
    /\ input.gateway.payload.assignments = <<>>
    /\ RequestedRefPaths # {}

\* C22: if no requested target id is configured as a ref in the local
\* config, the helper returns the config unchanged and calls no gateway.
C22_NoRefNoGatewayCall ==
    (output # Null /\ RequestedRefPaths = {}) =>
        /\ ~output.threw
        /\ output.resolvedConfig = input.config
        /\ output.calls = 0

\* C22 witness: a plaintext talk.apiKey was requested, and the helper
\* returned without the gateway, which would have thrown.
C22_Witness ==
    /\ output # Null /\ ~output.threw /\ output.calls = 0
    /\ input.targetIds = <<TalkTargetId>>
    /\ input.config[TalkApiKeyPath] = Str("plain")
    /\ input.gateway.throws
    /\ output.resolvedConfig = input.config

-----------------------------------------------------------------------------
(* Claims about the active snapshot *)

\* C2: a reload run while some ref on an active surface is unresolved or of
\* the wrong shape answers UNAVAILABLE and leaves what readers obtain (the
\* active snapshot, the served config, the served auth stores) as it was.
C2_FailedReloadKeepsLastKnownGood ==
    [][(lastOp'.op = "secrets.reload" /\ SomeActiveRefUnusable(env))
            => (~lastOp'.ok /\ ReaderView' = ReaderView)]_vars

\* C2 witness: a reload failed on a ref whose provider returns a mapping
\* where a string is expected, while the snapshot activated with sk-live
\* stays the one readers obtain.
C2_Witness ==
    /\ lastOp.op = "secrets.reload"
    /\ ~lastOp.ok
    /\ env.providerValues["K1"] = Obj
    /\ activeSnapshot # Null
    /\ LaterGet.config[TalkApiKeyPath] = Str("sk-live")
    /\ ServedConfig.config[TalkApiKeyPath] = Str("sk-live")

\* C6: a step that is not an activation (direct or by a reload) or a clear
\* leaves what getActiveSecretsRuntimeSnapshot returns unchanged; in
\* particular a mutation of an object a caller holds.
C6_ActiveContentChangesOnlyByActivateOrClear ==
    [][lastOp'.op \notin {"activate", "clear", "secrets.reload"}
            => LaterGet' = LaterGet]_vars

\* C6 witness: a caller obtained an object from getActive, passed it to
\* activate, then mutated its config and its auth stores; the active
\* snapshot still holds the resolved values.
C6_Witness ==
    /\ lastOp.op = "mutate"
    /\ held # Null
    /\ held.origin = "get"
    /\ held.passed
    /\ heap[held.snapshot.config][TalkApiKeyPath] = Str("tampered")
    /\ heap[held.snapshot.authStores]["main"].profiles = <<>>
    /\ activeSnapshot # Null
    /\ LaterGet.config[TalkApiKeyPath] = Str("sk-live")
    /\ LaterGet.authStores["main"].profiles["openai:default"].key = Str("sk-live")

\* C7: whatever readers obtain comes from one activation.  The config file
\* and the auth store hold the same ref, so the values one activation
\* resolved for them are equal; and while a snapshot is active the served
\* config and auth stores are those of the active snapshot.
C7_ReadersSeeOneActivation ==
    /\ (ServedConfig # Null /\ ServedAuthStores # Null) =>
            ServedConfig.config[TalkApiKeyPath]
                = ServedAuthStores["main"].profiles["openai:default"].key
    /\ activeSnapshot # Null =>
            /\ ServedConfig = [config |-> LaterGet.config,
                               sourceConfig |-> LaterGet.sourceConfig]
            /\ ServedAuthStores = LaterGet.authStores

-----------------------------------------------------------------------------
(* Claims about the degraded and recovered signals *)

\* A step of the behaviour that is a startup or reload attempt.
IsAttempt == reloader'.attempts = reloader.attempts + 1

\* A snapshot is active and the last attempt succeeded.
WasHealthy == activeSnapshot # Null /\ reloader.last = "ok"

\* A snapshot is active and the last attempt failed.
WasDegraded == activeSnapshot # Null /\ reloader.last = "err"

Emitted(machine, event) ==
    Cardinality({i \in 1..Len(machine.emitted) : machine.emitted[i] = event})

\* C11: SECRETS_RELOADER_DEGRADED is emitted exactly once by a reload that
\* fails while a snapshot is active and healthy, and by no further
\* consecutive failure.
C11_DegradedEmittedOncePerDegradation ==
    [][IsAttempt =>
        Emitted(reloader'.machine, "SECRETS_RELOADER_DEGRADED")
            = IF reloader'.last = "err" /\ reloader'.reason = "reload" /\ WasHealthy
              THEN 1 ELSE 0]_vars

C11_Witness ==
    /\ reloader.attempts = 4
    /\ reloader.last = "err"
    /\ reloader.machine.state = "Degraded"
    /\ reloader.machine.emitted = <<>>
    /\ activeSnapshot # Null

\* C12: SECRETS_RELOADER_RECOVERED is emitted exactly once, by the first
\* successful activation after a degraded state, and by no successful
\* activation that follows another state.
C12_RecoveredEmittedOnceAfterDegraded ==
    [][IsAttempt =>
        Emitted(reloader'.machine, "SECRETS_RELOADER_RECOVERED")
            = IF reloader'.last = "ok" /\ WasDegraded THEN 1 ELSE 0]_vars

C12_Witness ==
    /\ reloader.last = "ok"
    /\ reloader.machine.emitted = <<"SECRETS_RELOADER_RECOVERED">>
    /\ reloader.machine.state = "Ready"
    /\ LaterGet.config[TalkApiKeyPath] = Str("sk-rotated")

\* C13: a preparation failure before any snapshot was ever activated emits
\* no SECRETS_RELOADER_DEGRADED and makes no snapshot active.
C13_FailureBeforeFirstActivationIsSilent ==
    [][(IsAttempt /\ activeSnapshot = Null /\ reloader'.last = "err")
        => /\ Emitted(reloader'.machine, "SECRETS_RELOADER_DEGRADED") = 0
           /\ activeSnapshot' = Null
           /\ runtimeConfigSnapshot' = Null
           /\ runtimeAuthStoreSnapshots' = Null]_vars

C13_Witness ==
    /\ reloader.attempts = 2
    /\ reloader.reason = "reload"
    /\ reloader.last = "err"
    /\ reloader.machine.emitted = <<>>
    /\ activeSnapshot = Null

-----------------------------------------------------------------------------
(* Claims about the account-inheritance model of channels *)

\* The accounts of a channel: the record entries of its accounts mapping.
AccountsOf(channel) ==
    IF channel.accounts.t # "obj" THEN {}
    ELSE {id \in DOMAIN channel.accounts.entries :
            channel.accounts.entries[id].t = "obj"}

ChannelIsEnabled(channel) == channel.enabled # Bool(FALSE)

\* An account is enabled when the channel is enabled and its own flag is not
\* false.
EnabledAccountsOf(channel) ==
    {id \in AccountsOf(channel) :
        /\ ChannelIsEnabled(channel)
        /\ channel.accounts.entries[id].enabled # Bool(FALSE)}

HasNonEmptyAccounts(channel) ==
    /\ channel.accounts.t = "obj"
    /\ DOMAIN channel.accounts.entries # {}

\* C14: with a non-empty accounts mapping the top-level field is active
\* exactly when some enabled account does not define the field itself; with
\* accounts absent or empty it is active exactly when the channel is enabled.
C14_TopLevelFieldActiveIffInherited ==
    output # Null =>
        LET channel == input.channel IN
        IF HasNonEmptyAccounts(channel)
        THEN output.active <=>
                \E id \in EnabledAccountsOf(channel) :
                    input.rootKey \notin channel.accounts.entries[id].keys
        ELSE output.active <=> ChannelIsEnabled(channel)

\* Every enabled account overrides the field and the only account that does
\* not is disabled: the top-level field is found inactive.
C14_Witness ==
    /\ output # Null
    /\ input.rootKey = "botToken"
    /\ input.channel.enabled = Absent
    /\ input.channel.accounts.t = "obj"
    /\ DOMAIN input.channel.accounts.entries = {"work", "home"}
    /\ input.channel.accounts.entries["work"] = ChannelValue(Absent, {"botToken"}, Absent)
    /\ input.channel.accounts.entries["home"] = ChannelValue(Bool(FALSE), {}, Absent)
    /\ output.active = FALSE

-----------------------------------------------------------------------------
(* Claims about channels with accounts *)

PreparedSnapshot == prepOut.result.snapshot

Prepared == prepOut.done /\ ~prepOut.result.threw

Authored(path) == ConfigValue(prepIn.config, path)

\* The ref at the path was left as authored and reported as inactive.
LeftUnresolvedAndReported(path) ==
    /\ PreparedSnapshot.config[path] = Authored(path)
    /\ \E i \in DOMAIN PreparedSnapshot.warnings :
          /\ PreparedSnapshot.warnings[i].code = "SECRETS_REF_IGNORED_INACTIVE_SURFACE"
          /\ PreparedSnapshot.warnings[i].path = path

\* The ref at the path was resolved: the snapshot holds the provider's value.
ResolvedInSnapshot(path) ==
    /\ Authored(path).t = "ref"
    /\ PreparedSnapshot.config[path] = prepIn.providerValues[Authored(path).id]

\* The accounts of a channel: the entries of its accounts mapping that are
\* mappings themselves.
AccountsOfChannel(channelKey) ==
    {id \in SurfaceAccountIds : Authored(AccountPath(channelKey, id)) = Obj}

\* The accounts mapping of the channel has an entry.
HasAccountEntries(channelKey) ==
    \E id \in SurfaceAccountIds : Authored(AccountPath(channelKey, id)) # Absent

\* The surfaces a top-level value serves: the channel itself when it has no
\* account entries, otherwise the accounts that do not define the key.
ServedByTopLevel(channelKey, key) ==
    IF ~HasAccountEntries(channelKey) THEN {"(channel)"}
    ELSE {id \in AccountsOfChannel(channelKey) :
            \A p \in DOMAIN prepIn.config :
                (/\ Len(p) > 4
                 /\ SubSeq(p, 1, 5) = Append(AccountPath(channelKey, id), key))
                    => prepIn.config[p] = Absent}

\* The Slack mode in effect for a surface: the account's own mode, or the
\* channel's mode when the account has none.
SlackModeInEffect(surface) ==
    IF surface # "(channel)" /\ Authored(Append(AccountPath("slack", surface), "mode")) # Absent
    THEN Authored(Append(AccountPath("slack", surface), "mode"))
    ELSE Authored(Append(ChannelPath("slack"), "mode"))

SlackSigningSecretPaths ==
    {Append(ChannelPath("slack"), "signingSecret")}
        \cup {Append(AccountPath("slack", id), "signingSecret") : id \in SurfaceAccountIds}

\* No surface the signingSecret at the path serves runs in "http" mode.
SlackNotHttpFor(path) ==
    IF Len(path) = 3
    THEN \A surface \in ServedByTopLevel("slack", "signingSecret") :
            SlackModeInEffect(surface) # Str("http")
    ELSE SlackModeInEffect(path[4]) # Str("http")

C23_InheritedByHttpAccount ==
    /\ Prepared
    /\ Authored(Append(ChannelPath("slack"), "mode")) = Absent
    /\ Authored(Append(AccountPath("slack", "work"), "mode")) = Str("http")
    /\ Authored(Append(AccountPath("slack", "work"), "signingSecret")) = Absent
    /\ ResolvedInSnapshot(Append(ChannelPath("slack"), "signingSecret"))

\* A non-empty string is configured at the path.
ConfiguredText(path) == Authored(path).t = "str" /\ Authored(path).s \notin {"", " "}

TelegramPaths(field) ==
    {Append(ChannelPath("telegram"), field)}
        \cup {Append(AccountPath("telegram", id), field) : id \in SurfaceAccountIds}

\* The path of the sibling `key` at the level of the path.
SameLevel(path, key) == Append(SubSeq(path, 1, Len(path) - 1), key)

C24_ResolvedWithoutTokenFile ==
    /\ Prepared
    /\ Authored(Append(ChannelPath("telegram"), "tokenFile")) = Absent
    /\ ResolvedInSnapshot(Append(ChannelPath("telegram"), "botToken"))

\* The webhookUrl in effect for a surface: the account's own, or the
\* top-level one when the account omits it.
TelegramWebhookUrlInEffect(surface) ==
    IF surface # "(channel)"
       /\ Authored(Append(AccountPath("telegram", surface), "webhookUrl")) # Absent
    THEN Append(AccountPath("telegram", surface), "webhookUrl")
    ELSE Append(ChannelPath("telegram"), "webhookUrl")

\* No surface the webhookSecret at the path serves has a non-empty
\* webhookUrl in effect.
TelegramNoWebhookUrlFor(path) ==
    IF Len(path) = 3
    THEN \A surface \in ServedByTopLevel("telegram", "webhookSecret") :
            ~ConfiguredText(TelegramWebhookUrlInEffect(surface))
    ELSE ~ConfiguredText(TelegramWebhookUrlInEffect(path[4]))

C25_InheritedUrl ==
    /\ Prepared
    /\ ConfiguredText(Append(ChannelPath("telegram"), "webhookUrl"))
    /\ Authored(Append(AccountPath("telegram", "work"), "webhookUrl")) = Absent
    /\ ResolvedInSnapshot(Append(AccountPath("telegram", "work"), "webhookSecret"))

\* The Discord refs of a sub-surface, top-level and of the accounts, each
\* with the path of the sub-surface object it lives in.
DiscordSubSurfaceRefs ==
    {[path |-> prefix \o <<"pluralkit", "token">>, surface |-> Append(prefix, "pluralkit")] :
        prefix \in {ChannelPath("discord")}
                      \cup {AccountPath("discord", id) : id \in SurfaceAccountIds}}
    \cup {[path |-> prefix \o <<"voice", "tts", provider, "apiKey">>,
           surface |-> Append(prefix, "voice")] :
        prefix \in {ChannelPath("discord")}
                      \cup {AccountPath("discord", id) : id \in SurfaceAccountIds},
        provider \in {"openai", "elevenlabs"}}

C26_AccountVoiceDisabled ==
    /\ Prepared
    /\ Authored(AccountPath("discord", "work") \o <<"voice", "enabled">>) = Bool(FALSE)
    /\ Authored(Append(AccountPath("discord", "work"), "enabled")) = Absent
    /\ Authored(AccountPath("discord", "home")) = Obj
    /\ LeftUnresolvedAndReported(
           AccountPath("discord", "work") \o <<"voice", "tts", "openai", "apiKey">>)
    /\ ResolvedInSnapshot(ChannelPath("discord") \o <<"voice", "tts", "openai", "apiKey">>)

\* The remote gateway secrets, each with the local auth secret that
\* corresponds to it.
GatewayRemoteRefs ==
    {[path |-> GatewayPath(<<"remote", key>>), local |-> GatewayPath(<<"auth", key>>)] :
        key \in {"token", "password"}}

\* A local auth secret is configured: a non-empty string or a ref.
LocalSecretConfigured(path) ==
    \/ Authored(path).t = "ref"
    \/ Authored(path).t = "str" /\ Authored(path).s # ""

GatewayRemoteDisabled == Authored(GatewayPath(<<"remote", "enabled">>)) = Bool(FALSE)

\* gateway.mode is "remote" or gateway.remote.url is set.
GatewayRemoteInUse ==
    \/ Authored(GatewayPath(<<"mode">>)) = Str("remote")
    \/ ConfiguredText(GatewayPath(<<"remote", "url">>))

\* C27 as stated: for every gateway.mode and gateway.remote.url, a remote
\* token or password ref is inactive when the corresponding local auth
\* secret is configured.
C27_RemoteInactiveWheneverLocalConfigured ==
    Prepared =>
        \A r \in GatewayRemoteRefs :
            (Authored(r.path).t = "ref" /\ LocalSecretConfigured(r.local))
                => LeftUnresolvedAndReported(r.path)

\* C27 amended: a remote token or password ref is inactive when
\* gateway.remote is disabled, or when the corresponding local auth secret
\* is configured while gateway.mode is not "remote" and gateway.remote.url is
\* not set; in every other case it is active and resolved.
C27_RemoteInactiveUnlessRemoteInUse ==
    Prepared =>
        \A r \in GatewayRemoteRefs :
            Authored(r.path).t = "ref" =>
                IF \/ GatewayRemoteDisabled
                   \/ LocalSecretConfigured(r.local) /\ ~GatewayRemoteInUse
                THEN LeftUnresolvedAndReported(r.path)
                ELSE ResolvedInSnapshot(r.path)

\* C27 witness: local mode, no remote url, remote enabled, a local token:
\* the remote token ref is left as authored and reported.
C27_Witness ==
    /\ Prepared
    /\ Authored(GatewayPath(<<"mode">>)) = Str("local")
    /\ ~GatewayRemoteInUse
    /\ ~GatewayRemoteDisabled
    /\ Authored(GatewayPath(<<"auth", "token">>)) = Str("local-token")
    /\ Authored(GatewayPath(<<"remote", "token">>)) = RefV("K1")
    /\ LeftUnresolvedAndReported(GatewayPath(<<"remote", "token">>))

\* In remote mode the remote token ref is resolved although a local token
\* is configured.
C27_ResolvedInRemoteMode ==
    /\ Prepared
    /\ Authored(GatewayPath(<<"mode">>)) = Str("remote")
    /\ Authored(GatewayPath(<<"auth", "token">>)) = Str("local-token")
    /\ ResolvedInSnapshot(GatewayPath(<<"remote", "token">>))

DefaultsMemorySearchApiKey == AgentsPath(<<"defaults", "memorySearch", "remote", "apiKey">>)

\* The entries of agents.list.
AuthoredAgents == {index \in {"0", "1"} : Authored(AgentPath(index, <<>>)) # Absent}

\* An agent that is enabled and whose memory search is enabled.
EnabledAgent(index) ==
    /\ Authored(AgentPath(index, <<>>)) = Obj
    /\ Authored(AgentPath(index, <<"enabled">>)) # Bool(FALSE)
    /\ Authored(AgentPath(index, <<"memorySearch", "enabled">>)) # Bool(FALSE)

OverridesApiKey(index) ==
    Authored(AgentPath(index, <<"memorySearch", "remote", "apiKey">>)) # Absent

EveryEnabledAgentOverrides ==
    \A index \in AuthoredAgents : EnabledAgent(index) => OverridesApiKey(index)

\* C28 as stated: for agents.list of any length, if every enabled agent
\* overrides memorySearch.remote.apiKey, the ref at
\* agents.defaults.memorySearch.remote.apiKey is left unresolved in the
\* snapshot and reported as inactive.
C28_DefaultsInactiveWhenAllOverride ==
    Prepared =>
        ((Authored(DefaultsMemorySearchApiKey).t = "ref" /\ EveryEnabledAgentOverrides)
            => LeftUnresolvedAndReported(DefaultsMemorySearchApiKey))

\* C28 amended: for a non-empty agents.list, if every enabled agent
\* overrides memorySearch.remote.apiKey, the defaults ref is left unresolved
\* and reported; with an empty or absent agents.list the defaults ref is
\* active unless the defaults memory search is disabled.
C28_DefaultsInactiveWhenAllOfNonEmptyListOverride ==
    Prepared =>
        (Authored(DefaultsMemorySearchApiKey).t = "ref" =>
            /\ (AuthoredAgents # {} /\ EveryEnabledAgentOverrides)
                  => LeftUnresolvedAndReported(DefaultsMemorySearchApiKey)
            /\ (/\ AuthoredAgents = {}
                /\ Authored(AgentsPath(<<"defaults", "memorySearch", "enabled">>)) # Bool(FALSE))
                  => ResolvedInSnapshot(DefaultsMemorySearchApiKey))

\* C28 witness: two enabled agents, both overriding the apiKey; the
\* defaults ref is left as authored and reported.
C28_Witness ==
    /\ Prepared
    /\ AuthoredAgents = {"0", "1"}
    /\ \A index \in AuthoredAgents : EnabledAgent(index) /\ OverridesApiKey(index)
    /\ Authored(DefaultsMemorySearchApiKey) = RefV("K1")
    /\ LeftUnresolvedAndReported(DefaultsMemorySearchApiKey)

\* With no agents.list the defaults ref is resolved.
C28_ResolvedWithoutAgents ==
    /\ Prepared
    /\ AuthoredAgents = {}
    /\ ResolvedInSnapshot(DefaultsMemorySearchApiKey)

\* The paths that are not the path of a collected ref: gateway.auth.token
\* is only read to decide the remote token, and the ref of
\* channels.googlechat.serviceAccountRef is collected, and reported, under
\* the path of serviceAccount.
UncollectedPaths == {GatewayPath(<<"auth", "token">>), GoogleChatServiceAccountRefPath}

\* A ref the collectors visited and that the prepared snapshot holds as
\* authored: it was skipped.
SkippedRefs ==
    {path \in DOMAIN prepIn.config \ UncollectedPaths :
        /\ Authored(path).t = "ref"
        /\ PreparedSnapshot.config[path] = Authored(path)}

\* A warning of the snapshot about the inactive surface of the path, whose
\* message is the path followed by a text that is not blank.
InactiveSurfaceWarnings(path) ==
    {i \in DOMAIN PreparedSnapshot.warnings :
        /\ PreparedSnapshot.warnings[i].code = "SECRETS_REF_IGNORED_INACTIVE_SURFACE"
        /\ PreparedSnapshot.warnings[i].path = path
        /\ PreparedSnapshot.warnings[i].message[1] = path
        /\ Trim(PreparedSnapshot.warnings[i].message[2]) # ""}

\* C29: every ref that prepareSecretsRuntimeSnapshot skips because its
\* surface is inactive has, in the snapshot's warnings, a
\* SECRETS_REF_IGNORED_INACTIVE_SURFACE entry with the ref's path and a
\* message carrying the reason; none is skipped silently.
C29_EverySkippedRefIsReported ==
    Prepared => \A path \in SkippedRefs : InactiveSurfaceWarnings(path) # {}

\* C29 witness: two refs are skipped, each with its own warning, and one of
\* the messages carries the reason its collector gave.
C29_Witness ==
    /\ Prepared
    /\ Cardinality(SkippedRefs) = 2
    /\ \A path \in SkippedRefs : Cardinality(InactiveSurfaceWarnings(path)) = 1
    /\ \E path \in SkippedRefs : \E i \in InactiveSurfaceWarnings(path) :
          PreparedSnapshot.warnings[i].message[2] # DefaultInactiveDetails

\* A ref skipped without a reason from the collector is reported with the
\* default text.
C29_DefaultText ==
    /\ Prepared
    /\ \E path \in SkippedRefs : \E i \in InactiveSurfaceWarnings(path) :
          PreparedSnapshot.warnings[i].message[2] = DefaultInactiveDetails

-----------------------------------------------------------------------------
(* Claims about prepareSecretsRuntimeSnapshot *)

\* C8: in the snapshot a successful preparation returns, the value at every
\* path of an inactive surface that holds a ref is the value as authored: no
\* assignment was created for it.
C8_InactiveRefsLeftAsAuthored ==
    (prepOut.done /\ ~prepOut.result.threw) =>
        \A p \in InactiveRefPaths(prepIn.config) :
            /\ prepOut.result.snapshot.config[p] = prepIn.config[p]
            /\ prepOut.result.snapshot.sourceConfig[p] = prepIn.config[p]

\* C8 witness: a preparation succeeded that resolved an active ref and left
\* an inactive ref, whose provider has a value, untouched.
C8_Witness ==
    /\ prepOut.done /\ ~prepOut.result.threw
    /\ \E p \in InactiveRefPaths(prepIn.config) :
         /\ prepIn.config[p].t = "ref"
         /\ prepIn.providerValues[prepIn.config[p].id] = Str("sk-live")
         /\ prepOut.result.snapshot.config[p] = prepIn.config[p]
    /\ prepIn.config[TalkApiKeyPath].t = "ref"
    /\ prepOut.result.snapshot.config[TalkApiKeyPath] = Str("sk-live")

\* C9: if some ref on an active surface has no value at its provider, or a
\* value that is not of the expected shape, the preparation throws and
\* returns no snapshot.
C9_UnresolvedActiveRefFailsPreparation ==
    (prepOut.done /\
        \E a \in ActiveRefs(prepIn.config, prepIn.stores) :
            \/ prepIn.providerValues[a.ref.id] = Absent
            \/ ~HasStatedShape(prepIn.providerValues[a.ref.id], a.expected))
    => prepOut.result.threw

\* C9 witness: a preparation threw because an active ref of expected shape
\* string resolved to a mapping, every ref having a value.
C9_Witness ==
    /\ prepOut.done /\ prepOut.result.threw
    /\ \A k \in RefIds : prepIn.providerValues[k] # Absent
    /\ \E a \in ActiveRefs(prepIn.config, prepIn.stores) :
         a.expected = "string" /\ prepIn.providerValues[a.ref.id] = Obj

\* C10: a preparation whose refs on active surfaces all resolve to a value of
\* the expected shape succeeds, whatever the refs on inactive surfaces
\* resolve to.
C10_InactiveRefNeverFailsPreparation ==
    (prepOut.done /\
        \A a \in ActiveRefs(prepIn.config, prepIn.stores) :
            isExpectedResolvedSecretValue(prepIn.providerValues[a.ref.id], a.expected))
    => ~prepOut.result.threw

\* C10 witness: a preparation succeeded although a ref on an inactive
\* surface has no value at its provider.
C10_Witness ==
    /\ prepOut.done /\ ~prepOut.result.threw
    /\ \E p \in InactiveRefPaths(prepIn.config) :
         /\ prepIn.config[p].t = "ref"
         /\ prepIn.providerValues[prepIn.config[p].id] = Absent

\* A plaintext value: a value that is present, is not a ref and, when it is
\* a string, is not blank.
IsPlaintext(value) ==
    \/ value.t = "obj"
    \/ value.t = "str" /\ value.s \notin {"", " "}

\* The number of SECRETS_REF_OVERRIDES_PLAINTEXT warnings at a path.
OverrideWarnings(warnings, path) ==
    Cardinality({i \in 1..Len(warnings) :
                    /\ warnings[i].code = "SECRETS_REF_OVERRIDES_PLAINTEXT"
                    /\ warnings[i].path = path})

\* C15: a target with a plaintext value at P and a ref in P's sibling ref
\* field, on an active surface, has in the prepared snapshot the value the
\* ref resolves to at P, its sibling ref field as authored, and exactly one
\* SECRETS_REF_OVERRIDES_PLAINTEXT warning.
C15_SiblingRefOverridesPlaintext ==
    (prepOut.done /\ ~prepOut.result.threw) =>
        LET snapshot == prepOut.result.snapshot IN
        /\ \A agentDir \in AgentDirs :
             \A profileId \in DOMAIN prepIn.stores[agentDir].profiles :
                LET before == prepIn.stores[agentDir].profiles[profileId]
                    after == snapshot.authStores[agentDir].profiles[profileId]
                IN  (IsPlaintext(before.key) /\ before.keyRef.t = "ref") =>
                        /\ after.key = prepIn.providerValues[before.keyRef.id]
                        /\ after.keyRef = before.keyRef
                        /\ OverrideWarnings(snapshot.warnings,
                              AuthProfilePath(agentDir, profileId, "key")) = 1
        /\ (/\ IsPlaintext(prepIn.config[GoogleChatServiceAccountPath])
             /\ prepIn.config[GoogleChatServiceAccountRefPath].t = "ref"
             /\ prepIn.config[GoogleChatEnabledPath] # Bool(FALSE)) =>
                /\ snapshot.config[GoogleChatServiceAccountPath] =
                      prepIn.providerValues[prepIn.config[GoogleChatServiceAccountRefPath].id]
                /\ snapshot.config[GoogleChatServiceAccountRefPath] =
                      prepIn.config[GoogleChatServiceAccountRefPath]
                /\ OverrideWarnings(snapshot.warnings, GoogleChatPath) = 1

\* C15 witness: a preparation succeeded for a profile with a plaintext key
\* and a keyRef and a Google Chat channel with a plaintext serviceAccount and
\* a serviceAccountRef; both hold the resolved values.
C15_Witness ==
    /\ prepOut.done /\ ~prepOut.result.threw
    /\ prepIn.stores["main"] =
          StoreWith("openai:default", ApiKeyProfile(Str("plain"), RefV("K1")))
    /\ prepOut.result.snapshot.authStores["main"].profiles["openai:default"].key = Str("sk-live")
    /\ prepIn.config[GoogleChatServiceAccountPath] = Obj
    /\ prepIn.config[GoogleChatServiceAccountRefPath] = RefV("K2")
    /\ prepOut.result.snapshot.config[GoogleChatServiceAccountPath] = Obj
    /\ prepIn.providerValues["K2"] = Obj
    /\ Len(prepOut.result.snapshot.warnings) >= 2

-----------------------------------------------------------------------------
(* Claims about the secrets audit *)

\* The report holds a finding of an unresolved ref.
ReportHasUnresolvedRef ==
    \E i \in DOMAIN output.report.findings :
        output.report.findings[i].code = "REF_UNRESOLVED"

\* C30: the audit exit code is 2 whenever the report contains at least one
\* unresolved ref, with or without --check; otherwise it is 1 when --check is
\* set and the report contains any finding; otherwise it is 0.  The status
\* of the report follows the same order: unresolved, findings, clean.
C30_AuditExitCodePolicy ==
    (output # Null /\ output.exited) =>
        /\ output.exitCode =
              IF ReportHasUnresolvedRef THEN 2
              ELSE IF input.check /\ output.report.findings # <<>> THEN 1
              ELSE 0
        /\ output.report.status =
              IF ReportHasUnresolvedRef THEN "unresolved"
              ELSE IF output.report.findings # <<>> THEN "findings"
              ELSE "clean"

\* C30 witness: --check, a plaintext finding and an unresolved ref: the
\* command exits with 2.
C30_Witness ==
    /\ output # Null
    /\ output.exited
    /\ input.check
    /\ ReportHasUnresolvedRef
    /\ \E i \in DOMAIN output.report.findings :
          output.report.findings[i].code = "PLAINTEXT_FOUND"
    /\ output.exitCode = 2

\* Findings without an unresolved ref: 1 with --check.
C30_FindingsWithCheck ==
    /\ output # Null
    /\ output.exited
    /\ input.check
    /\ ~ReportHasUnresolvedRef
    /\ output.exitCode = 1

-----------------------------------------------------------------------------
(* Claims about the interactive configure flow *)

ConfigureEnded == output.pc \in {"done", "failed"}

\* C31: a providers-only run of the configure flow never reads the
\* auth-profiles store, so an unreadable auth-profiles store cannot make it
\* fail.
C31_ProvidersOnlyNeverReadsAuthProfiles ==
    input.providersOnly =>
        /\ output.authProfilesReads = 0
        /\ output.error \notin {"auth-profiles could not be read", "auth-profiles is invalid"}

\* The run of the test: providers-only, an unreadable auth-profiles file, no
\* provider change; it ends with the error about the file.
C31_ProvidersOnlyFailsOnUnreadableStore ==
    /\ input.providersOnly
    /\ input.authProfilesFile = "unreadable"
    /\ output.pc = "failed"
    /\ output.authProfilesReads = 1
    /\ output.error = "auth-profiles could not be read"

-----------------------------------------------------------------------------
(* Claims about the Tlon outbound session *)

TlonResolved == output # Null /\ output.result # Null

\* The target holds something else than blanks.
NonBlankTarget == \E i \in DOMAIN input : input[i] # " "

\* C32: for every non-blank target that resolveTlonOutboundSession
\* classifies as a direct peer, the peer id is a non-empty ship id beginning
\* with "~", and from and to are both "tlon:" followed by that id.
C32_DirectPeerIsTildeShip ==
    (TlonResolved /\ NonBlankTarget /\ output.result.peer.kind = "direct") =>
        /\ output.result.peer.id # <<>>
        /\ Head(output.result.peer.id) = "~"
        /\ output.result.from = <<"tlon:">> \o output.result.peer.id
        /\ output.result.to = <<"tlon:">> \o output.result.peer.id

\* "dm:" with no ship after it: a direct peer with an empty id.
C32_DirectPeerWithoutShip ==
    /\ TlonResolved
    /\ input = <<"dm:">>
    /\ output.result.peer = [kind |-> "direct", id |-> <<>>]
    /\ output.result.to = <<"tlon:">>

\* A slash without two parts around it: a direct peer whose id is the
\* target as given, without "~".
C32_DirectPeerWithSlash ==
    /\ TlonResolved
    /\ input = <<"zod", "/">>
    /\ output.result.peer = [kind |-> "direct", id |-> <<"zod", "/">>]

-----------------------------------------------------------------------------
(* Claims about the refs a write-mode apply leaves in the files *)

\* A write-mode runSecretsApply returned after its commit.
ApplyCommitted ==
    /\ run.pc = "done" /\ ~run.outcome.threw
    /\ call.write
    /\ run.outcome.mode = "write"
    /\ run.outcome.changed

\* The written file holds the ref of the target at the target's ref
\* location: keyRef (and no key) for the auth-profile target, the target
\* path itself for an openclaw.json target.
TargetRefWritten(target) ==
    IF FileOfTarget(target) = AuthStoreFile
    THEN /\ disk[AuthStoreFile] # NoFile
         /\ "openai:default" \in DOMAIN disk[AuthStoreFile].doc.profiles
         /\ disk[AuthStoreFile].doc.profiles["openai:default"].keyRef = target.ref
         /\ disk[AuthStoreFile].doc.profiles["openai:default"].key = Absent
    ELSE /\ disk[ConfigFile] # NoFile
         /\ getPath(disk[ConfigFile].doc,
                    resolveValidatedPlanTarget(target).pathSegments) = target.ref

\* C33: after a successful write-mode apply the written files hold, for
\* every plan target, the plan's ref at the target's ref location and no
\* plaintext at the path of a sibling_ref target: no later step of the apply
\* removes a ref that a target wrote.
C33_WrittenFilesHoldEveryTargetRef ==
    ApplyCommitted
        => \A i \in DOMAIN call.plan.targets : TargetRefWritten(call.plan.targets[i])

\* The plan moves the key of the openai provider and the key of the openai
\* auth profile to refs; the apply returned, the config holds its ref, and
\* the profile written holds neither key nor keyRef.
C33_ScrubRemovedWrittenRef ==
    /\ ApplyCommitted
    /\ call.plan.targets = <<ProviderKeyTarget, ProfileKeyTarget>>
    /\ diskBefore = PlainInstall("utf8")
    /\ TargetRefWritten(ProviderKeyTarget)
    /\ AuthStoreFile \in run.outcome.changedFiles
    /\ disk[AuthStoreFile].doc.profiles["openai:default"].keyRef = Absent
    /\ disk[AuthStoreFile].doc.profiles["openai:default"].key = Absent

-----------------------------------------------------------------------------
(* Claims about applying the same plan twice *)

\* The plan was applied a second time, right after a write-mode apply that
\* succeeded and wrote.
AppliedAgain ==
    /\ run.pc = "done"
    /\ run.applies = 2
    /\ run.first # Null

\* C34: the second apply of the same plan, right after a successful
\* write-mode apply and with the files and the providers as that apply left
\* them, reports changed=false and no changed file, and writes no file.
C34_SecondApplyChangesNothing ==
    AppliedAgain
        => /\ ~run.outcome.threw
           /\ ~run.outcome.changed
           /\ run.outcome.changedFiles = {}
           /\ run.written = <<>>
           /\ disk = diskBefore

\* The plan moves the key of the openai provider and the key of the openai
\* auth profile to refs; its second apply reports the auth-profile store as
\* changed and writes it again.
C34_SecondApplyWritesAuthStore ==
    /\ AppliedAgain
    /\ call.plan.targets = <<ProviderKeyTarget, ProfileKeyTarget>>
    /\ ~run.outcome.threw
    /\ run.outcome.changed
    /\ run.outcome.changedFiles = {AuthStoreFile}
    /\ AuthStoreFile \in {run.written[i] : i \in DOMAIN run.written}

\* A plan with one target applied twice: the second apply changes nothing.
C34_SecondApplyOfOneTarget ==
    /\ AppliedAgain
    /\ call.plan.targets = <<ProfileKeyTarget>>
    /\ ~run.outcome.threw
    /\ ~run.outcome.changed
    /\ run.written = <<>>

\* The files the apply that just returned wrote.
FilesWritten == {run.written[i] : i \in DOMAIN run.written}

\* C35: in write mode the files runSecretsApply writes are among the
\* changedFiles it reports: the main config and an auth-profile store that a
\* target addressed without changing are not rewritten.
C35_WritesOnlyChangedFiles ==
    (run.applies >= 1 /\ run.outcome # Null /\ ~run.outcome.threw)
        => FilesWritten \subseteq run.outcome.changedFiles

\* The auth profile holds its ref already and the plan also moves the talk
\* key: the apply reports the config file alone and writes the auth-profile
\* store as well.
C35_UnchangedAuthStoreRewritten ==
    /\ run.applies = 1
    /\ run.outcome # Null
    /\ call.plan.targets = <<ProfileKeyTarget, TalkKeyTarget>>
    /\ diskBefore = RefInStoreInstall
    /\ run.outcome.changedFiles = {ConfigFile}
    /\ FilesWritten = {ConfigFile, AuthStoreFile}
    /\ disk[AuthStoreFile] = diskBefore[AuthStoreFile]

\* The plan moves the key of the auth profile only: the apply does not
\* report the config file, and calls the config writer all the same.
C35_UnchangedConfigRewritten ==
    /\ run.applies = 1
    /\ run.outcome # Null
    /\ call.plan.targets = <<ProfileKeyTarget>>
    /\ DOMAIN call.plan.providerUpserts = {}
    /\ call.plan.providerDeletes = <<>>
    /\ diskBefore = PlainInstall("utf8")
    /\ ConfigFile \notin run.outcome.changedFiles
    /\ ConfigFile \in FilesWritten
    /\ disk[ConfigFile] = diskBefore[ConfigFile]

-----------------------------------------------------------------------------
(* Claims about command secrets read from the active snapshot *)

\* The dot paths of the refs that the preparation of the active snapshot
\* skipped as inactive surfaces.
PathsSkippedAsInactive ==
    IF output.active = Null THEN {}
    ELSE {DotPathOfSegments(output.active.warnings[i].path) :
            i \in {k \in DOMAIN output.active.warnings :
                      output.active.warnings[k].code
                          = "SECRETS_REF_IGNORED_INACTIVE_SURFACE"}}

\* The dot paths of the targets the command asked for.
PathsRequested ==
    Only({{targets[i].path : i \in DOMAIN targets} :
            targets \in {discoverConfigSecretTargetsByIds(input.config, input.targetIds)}})

\* C36: when the command asks for a target whose ref the preparation of the
\* active snapshot skipped as an inactive surface, secrets.resolve succeeds
\* and reports the path in a diagnostic with the inactive-surface marker, and
\* resolveCommandSecretRefsViaGateway returns without raising.
C36_InactiveRefIsReportedNotFailed ==
    (output # Null /\ output.pc \in {"answered", "done"})
        => \A path \in PathsSkippedAsInactive \cap PathsRequested :
            /\ output.response.ok
            /\ \E i \in DOMAIN output.response.payload.diagnostics :
                    output.response.payload.diagnostics[i] = <<path, InactiveSurfaceRest>>
            /\ output.pc = "done" => ~output.command.threw

\* The provider is disabled and its key is a ref; the command asks for the
\* provider keys: the gateway answers UNAVAILABLE and the command raises.
C36_InactiveRefFailsResolve ==
    /\ output # Null /\ output.pc = "done"
    /\ input.config[ProviderEnabledPath("openai")] = Bool(FALSE)
    /\ input.config[ProviderApiKeyPath("openai")] = RefV("K1")
    /\ input.targetIds = <<ProviderTargetId>>
    /\ output.active # Null
    /\ PathsSkippedAsInactive = {DotPathOfSegments(ProviderApiKeyPath("openai"))}
    /\ ~output.response.ok
    /\ output.response.error.code = "UNAVAILABLE"
    /\ output.command.threw

\* The talk key is a ref on an active surface: the gateway answers with its
\* value and the command returns.
C36_ActiveRefIsAssigned ==
    /\ output # Null /\ output.pc = "done"
    /\ input.targetIds = <<TalkTargetId>>
    /\ input.config[TalkApiKeyPath] = RefV("K2")
    /\ output.response.ok
    /\ Len(output.response.payload.assignments) = 1
    /\ output.response.payload.assignments[1].value = Str("sk-live")
    /\ ~output.command.threw

-----------------------------------------------------------------------------
(* Claims about the unresolved-ref findings of the audit *)

\* The assignment has a REF_UNRESOLVED finding.
HasUnresolvedFinding(assignment) ==
    \E i \in DOMAIN output.findings :
        /\ output.findings[i].code = "REF_UNRESOLVED"
        /\ output.findings[i].jsonPath = assignment.path

\* The resolution of the ref on its own fails: it raises, or what it yields
\* is not a value of the shape the assignment expects.
FailsIndividually(assignment) ==
    \/ input.resolver.single[secretRefKey(assignment.ref)] = Raises
    \/ ~isExpectedResolvedSecretValue(input.resolver.single[secretRefKey(assignment.ref)],
                                      assignment.expected)

\* C37: when the batch of a provider raises a provider-scoped error, every
\* ref of the batch gets a REF_UNRESOLVED finding and none is resolved on its
\* own; when the batch raises another error, every ref of the batch is
\* resolved on its own and exactly those that fail so get REF_UNRESOLVED.
C37_BatchErrorsBecomeFindings ==
    output # Null
        => \A i \in DOMAIN input.refAssignments :
            LET assignment == input.refAssignments[i]
                kind == input.resolver.batch[providerKeyOf(assignment.ref)].kind
            IN  /\ kind = "providerScoped"
                    => /\ HasUnresolvedFinding(assignment)
                       /\ secretRefKey(assignment.ref) \notin output.perRefAttempts
                /\ kind = "other"
                    => /\ secretRefKey(assignment.ref) \in output.perRefAttempts
                       /\ HasUnresolvedFinding(assignment) <=> FailsIndividually(assignment)

\* C37 witness: the batch of the env provider raised an error that is not
\* provider-scoped, and of its two refs the one that raised on its own has
\* findings; the batch of the file provider raised a provider-scoped error
\* and its ref has a finding without having been resolved on its own.
C37_Witness ==
    /\ output # Null
    /\ Len(input.refAssignments) = 4
    /\ input.resolver.batch[providerKeyOf(RefV("K1"))].kind = "other"
    /\ input.resolver.batch[providerKeyOf(FileRef("K3"))].kind = "providerScoped"
    /\ input.resolver.single[secretRefKey(RefV("K1"))] = Raises
    /\ input.resolver.single[secretRefKey(RefV("K2"))] = Str("sk-live")
    /\ input.resolver.single[secretRefKey(FileRef("K3"))] = Obj
    /\ output.perRefAttempts = {secretRefKey(RefV("K1")), secretRefKey(RefV("K2"))}
    /\ [i \in DOMAIN output.findings |-> output.findings[i].jsonPath]
            = <<TalkApiKeyPath, ProviderApiKeyPath("openai"), GoogleChatServiceAccountPath>>

-----------------------------------------------------------------------------
(* Claims about reloads while the secrets change *)

\* C38: the snapshot a reload prepared and activated holds, for every active
\* ref, the value its provider has at the time of that reload, whatever an
\* earlier preparation resolved for the same ref.
C38_ReloadReadsProvidersAfresh ==
    (lastOp.op = "secrets.reload" /\ lastOp.ok)
        => /\ LaterGet.config[TalkApiKeyPath] = env.providerValues["K1"]
           /\ LaterGet.authStores["main"].profiles["openai:default"].key
                = env.providerValues["K1"]

\* C38 witness: the snapshot active before the reload held sk-live, the
\* provider's secret was rotated, and the snapshot of the reload holds
\* sk-rotated.
C38_Witness ==
    /\ lastOp.op = "secrets.reload" /\ lastOp.ok
    /\ output.reloads >= 2
    /\ output.prior = Str("sk-live")
    /\ env.providerValues["K1"] = Str("sk-rotated")
    /\ LaterGet.config[TalkApiKeyPath] = Str("sk-rotated")
    /\ ServedConfig.config[TalkApiKeyPath] = Str("sk-rotated")

-----------------------------------------------------------------------------
(* Claims about the expansion of path tokens *)

\* C39: for each match of the expansion of an entry's tokens over a tree,
\* matching the segments of the match against the tokens succeeds, and
\* materializing the captures with the tokens yields the segments again.
C39_ExpandedMatchesRoundTrip ==
    output # Null
        => \A match \in output.matches :
            /\ matchPathTokens(match.segments, input.tokens) # Null
            /\ materializePathTokens(input.tokens, match.captures)
                    = [segments |-> match.segments]

\* The tree has a value under the empty key and the tokens are "a.*": the
\* expansion yields the path a."" and matchPathTokens refuses it.
C39_EmptyKeyIsExpandedNotMatched ==
    /\ output # Null
    /\ input.tokens = <<[kind |-> "literal", value |-> <<"a">>],
                        [kind |-> "wildcard", value |-> <<>>]>>
    /\ \E match \in output.matches :
        /\ match.segments = << <<"a">>, <<>> >>
        /\ match.captures = << <<>> >>
        /\ match.value = Str("x")
        /\ matchPathTokens(match.segments, input.tokens) = Null
        /\ materializePathTokens(input.tokens, match.captures) = Null

\* Every key of the matches is non-empty: the matches of "a[].*" over an
\* array of mappings are matched and materialized back.
C39_ArrayMatchesRoundTrip ==
    /\ output # Null
    /\ input.tokens = <<[kind |-> "array", field |-> <<"a">>],
                        [kind |-> "wildcard", value |-> <<>>]>>
    /\ Cardinality(output.matches) = 2
    /\ \A match \in output.matches :
        /\ match.segments[3] = <<"a">>
        /\ matchPathTokens(match.segments, input.tokens) = [captures |-> match.captures]
        /\ materializePathTokens(input.tokens, match.captures)
                = [segments |-> match.segments]

-----------------------------------------------------------------------------
(* Claims about setPathExistingStrict *)

\* Every segment of the path exists from the node on: a key the mapping
\* has, an index the array has.
RECURSIVE PathExistsFrom(_, _)
PathExistsFrom(node, segments) ==
    IF segments = <<>> THEN TRUE
    ELSE IF node.t = "obj"
    THEN /\ Head(segments) \in DOMAIN node.entries
         /\ PathExistsFrom(node.entries[Head(segments)], Tail(segments))
    ELSE IF node.t = "arr"
    THEN /\ isArrayIndex(Head(segments))
         /\ parseIntOfDigits(Head(segments), 0) < Len(node.items)
         /\ PathExistsFrom(node.items[parseIntOfDigits(Head(segments), 0) + 1],
                           Tail(segments))
    ELSE FALSE

\* The paths of the keys and indexes of a tree.
RECURSIVE PathsOfTree(_)
PathsOfTree(node) ==
    IF node.t = "obj"
    THEN UNION {{<<key>>} \cup {<<key>> \o path : path \in PathsOfTree(node.entries[key])} :
                    key \in DOMAIN node.entries}
    ELSE IF node.t = "arr"
    THEN UNION {{<<IndexString(i - 1)>>}
                    \cup {<<IndexString(i - 1)>> \o path : path \in PathsOfTree(node.items[i])} :
                    i \in 1..Len(node.items)}
    ELSE {}

\* C40: setPathExistingStrict throws and leaves the tree as it was whenever
\* some segment of the path, intermediate or leaf, does not exist in the
\* tree; whatever the outcome, the tree has no key and no container it had
\* not before.
C40_MissingSegmentThrowsAndCreatesNothing ==
    output # Null
        => /\ (Len(input.segments) = 0 \/ ~PathExistsFrom(input.tree, input.segments))
                => (output.threw /\ output.root = input.tree)
           /\ PathsOfTree(output.root) \subseteq PathsOfTree(input.tree)

\* C40 witness: the tree is {a: [{a: "x"}]} and the path a.0.b: the array
\* and its item exist, the leaf key does not; the call threw and the tree is
\* as it was.
C40_Witness ==
    /\ output # Null
    /\ input.segments = << <<"a">>, <<"0">>, <<"b">> >>
    /\ input.tree.t = "obj"
    /\ DOMAIN input.tree.entries = {<<"a">>}
    /\ input.tree.entries[<<"a">>].t = "arr"
    /\ Len(input.tree.entries[<<"a">>].items) = 1
    /\ input.tree.entries[<<"a">>].items[1].t = "obj"
    /\ DOMAIN input.tree.entries[<<"a">>].items[1].entries = {<<"a">>}
    /\ output.threw
    /\ output.root = input.tree

====
